---- MODULE Spec2Model ----
(***************************************************************************)
(* NextMove backend: the classification engine.                            *)
(*                                                                         *)
(*   app/services/ml_service.py         predict_mode (Mode Classifier)     *)
(*   app/services/trip_detection_ml.py  TripDetectionML (Boundary Detector)*)
(*   app/routers/ml.py, trips.py        the handlers that call them        *)
(*                                                                         *)
(* Numbers.  Feature values, thresholds and confidences are fixed-point    *)
(* hundredths: 1.0 in the source is 100 here, 0.6 is 60, and a confidence  *)
(* of 1.0 is 100.  Speeds of the mode rule are hundredths of km/h.         *)
(*                                                                         *)
(* Artifacts.  A pickled scikit-learn object is a record [kind, ver]:      *)
(*   "none"        Python None (nothing loaded)                            *)
(*   "absent"      no file in app/ml_models                                *)
(*   "corrupt"     a file joblib.load cannot read                          *)
(*   "unfitted"    StandardScaler() / RandomForestClassifier() before fit  *)
(*   "fitted"      a fitted object; ver names the fit that produced it     *)
(*   "nopredict"   an object that loads but whose predict raises           *)
(*   "noproba"     an object that predicts but whose predict_proba raises  *)
(*   "noinverse"   a label encoder whose inverse_transform raises          *)
(***************************************************************************)
EXTENDS Integers, Sequences, FiniteSets, TLC

VARIABLES
    store,        \* app/ml_models: artifact name -> what is on disk
    model,        \* ml_service.model
    start_model,  \* TripDetectionML.start_model
    end_model,    \* TripDetectionML.end_model
    scaler,       \* TripDetectionML.scaler
    is_trained,   \* TripDetectionML.is_trained
    boot,         \* the artifact names that were absent when the process loaded
    fresh,        \* no train_models call has got past its size check since the load
    fits,         \* number of fits train_models has started (names the versions)
    ret,          \* what the last train_models call of this process returned
    trips,        \* trips table: trip id -> [user_id, predicted_mode]
    last,         \* the last prediction call of this process and its outcome
    training,     \* the train_models call in progress: its position and what it found
    ml_training_data,  \* ml_training_data table: the rows in insertion order
    inflight,     \* stop_trip handlers suspended at their commit: request -> session
    clock         \* the last value datetime.now() returned

vars == <<store, model, start_model, end_model, scaler, is_trained,
          boot, fresh, fits, ret, trips, last, training,
          ml_training_data, inflight, clock>>

\* the state of routers/trips.py besides the trips table
requests == <<ml_training_data, inflight, clock>>

detector == <<start_model, end_model, scaler, is_trained>>

-----------------------------------------------------------------------------
(* Bounds *)

MaxTrain == 1          \* train_models runs that get past the size check

-----------------------------------------------------------------------------
(* Program constants (hundredths, except the two counts) *)

START_ACCEL_MEAN == 100
START_ACCEL_STD == 50
START_SPEED_MEAN == 100
START_HIGH_MOTION == 30
START_CONF_TRUE == 60
START_CONF_FALSE == 40
END_ACCEL_MEAN == 80
END_SPEED_MEAN == 200
END_LOW_MOTION == 70
END_CONF_TRUE == 70
END_CONF_FALSE == 30
WALK_BELOW == 500
BIKE_BELOW == 1500
BUS_BELOW == 4000
MIN_TRAINING == 100    \* examples
N_ESTIMATORS == 100    \* trees of a forest

\* a value scaler.transform rejects (float inf)
Infinity == 1000 * 1000

-----------------------------------------------------------------------------
(* Artifacts *)

None == [kind |-> "none", ver |-> 0]
Absent == [kind |-> "absent", ver |-> 0]
Corrupt == [kind |-> "corrupt", ver |-> 0]
Unfitted == [kind |-> "unfitted", ver |-> 0]
NoPredict == [kind |-> "nopredict", ver |-> 0]
NoProba == [kind |-> "noproba", ver |-> 0]
NoInverse == [kind |-> "noinverse", ver |-> 0]
Fitted(v) == [kind |-> "fitted", ver |-> v]

ArtifactNames ==
    {"mode_model", "label_encoder", "trip_start_model", "trip_end_model",
     "trip_detection_scaler"}

\* os.path.exists(path)
Exists(st, name) == st[name].kind # "absent"

\* joblib.load(path) raises
LoadRaises(st, name) == st[name].kind \in {"absent", "corrupt"}

\* bool(obj): None is false; a forest's length is that of estimators_, which
\* an unfitted forest does not have; any other object is true
Truth(obj) ==
    IF obj.kind = "none" THEN "false"
    ELSE IF obj.kind = "unfitted" THEN "raises" ELSE "true"

-----------------------------------------------------------------------------
(* Feature mappings: Python dicts, as functions whose domain is the keys   *)
(* present.                                                                *)

Get(features, key, default) ==
    IF key \in DOMAIN features THEN features[key] ELSE default

\* a record of values, -1 standing for "key not in the dict", as a dict
ToDict(r) == [k \in {k \in DOMAIN r : r[k] >= 0} |-> r[k]]

EmptyDict == [k \in {} |-> 0]

RECURSIVE SumTo(_, _)
SumTo(x, n) == IF n = 0 THEN 0 ELSE x[n] + SumTo(x, n - 1)

Max2(a, b) == IF a >= b THEN a ELSE b

feature_order ==
    << "accel_mean", "accel_std", "accel_max", "accel_min", "accel_median",
       "accel_q75", "accel_q25", "gyro_mean", "gyro_std", "gyro_max",
       "accel_variance", "accel_skewness", "accel_kurtosis",
       "speed_mean", "speed_std", "speed_max",
       "data_points", "time_span",
       "high_motion_ratio", "low_motion_ratio", "motion_consistency" >>

FEATURES ==
    << "avg_speed", "max_speed", "std_speed", "avg_acceleration",
       "stop_frequency", "distance_km" >>

\* motion-schema requests: every combination of the keys the rules read, at,
\* above and below each threshold or missing, and one key only the models
\* read, missing or not finite
FeatureMaps ==
    { ToDict(r) : r \in
        [ accel_mean : {-1, 80, 100, 120},
          accel_std : {-1, 50, 60},
          speed_mean : {-1, 100, 150, 200},
          high_motion_ratio : {-1, 30, 40},
          low_motion_ratio : {-1, 70, 80},
          gyro_mean : {-1, Infinity} ] }

\* the requests served while artifacts are loaded
SampleFeatureMaps ==
    { ToDict(r) : r \in
        [ accel_mean : {120},
          accel_std : {60},
          speed_mean : {150},
          high_motion_ratio : {40},
          low_motion_ratio : {80},
          gyro_mean : {-1, Infinity} ] }

\* trajectory-schema mappings handed to predict_mode
TrajectoryMaps ==
    { ToDict(r) : r \in
        [ avg_speed : {-1, 0, 490, 500, 510, 1490, 1500, 3990, 4000, 4010},
          distance_km : {-1, 0, 120} ] }

SampleTrajectoryMaps ==
    { ToDict(r) : r \in
        [ avg_speed : {490, 4000}, distance_km : {-1} ] }

-----------------------------------------------------------------------------
(* TripDetectionML: the fallback rules *)

Result(flag, confidence, path, failed) ==
    [status |-> "returned", flag |-> flag, confidence |-> confidence,
     path |-> path, failed |-> failed]

Raised(what) ==
    [status |-> "raised", flag |-> FALSE, confidence |-> 0,
     path |-> "raised", failed |-> what]

NotCalled ==
    [status |-> "notcalled", flag |-> FALSE, confidence |-> 0,
     path |-> "notcalled", failed |-> "none"]

\* the start rule with its first comparison not strict
fallback_trip_start_detection_NonStrict(features) ==
    LET accel_mean == Get(features, "accel_mean", 0)
        accel_std == Get(features, "accel_std", 0)
        speed_mean == Get(features, "speed_mean", 0)
        high_motion_ratio == Get(features, "high_motion_ratio", 0)
        is_starting == /\ accel_mean >= START_ACCEL_MEAN
                       /\ accel_std > START_ACCEL_STD
                       /\ speed_mean > START_SPEED_MEAN
                       /\ high_motion_ratio > START_HIGH_MOTION
        confidence == IF is_starting THEN START_CONF_TRUE ELSE START_CONF_FALSE
    IN  << is_starting, confidence >>

\* TripDetectionML._fallback_trip_start_detection
fallback_trip_start_detection(features) ==
    LET accel_mean == Get(features, "accel_mean", 0)
        accel_std == Get(features, "accel_std", 0)
        speed_mean == Get(features, "speed_mean", 0)
        high_motion_ratio == Get(features, "high_motion_ratio", 0)
        is_starting == /\ accel_mean > START_ACCEL_MEAN
                       /\ accel_std > START_ACCEL_STD
                       /\ speed_mean > START_SPEED_MEAN
                       /\ high_motion_ratio > START_HIGH_MOTION
        confidence == IF is_starting THEN START_CONF_TRUE ELSE START_CONF_FALSE
    IN  << is_starting, confidence >>

\* the end rule with its speed comparison not strict
fallback_trip_end_detection_NonStrict(features) ==
    LET accel_mean == Get(features, "accel_mean", 0)
        speed_mean == Get(features, "speed_mean", 0)
        low_motion_ratio == Get(features, "low_motion_ratio", 0)
        is_ending == /\ accel_mean < END_ACCEL_MEAN
                     /\ speed_mean <= END_SPEED_MEAN
                     /\ low_motion_ratio > END_LOW_MOTION
        confidence == IF is_ending THEN END_CONF_TRUE ELSE END_CONF_FALSE
    IN  << is_ending, confidence >>

\* the end rule without its test of accel_mean
fallback_trip_end_detection_NoAccel(features) ==
    LET speed_mean == Get(features, "speed_mean", 0)
        low_motion_ratio == Get(features, "low_motion_ratio", 0)
        is_ending == /\ speed_mean < END_SPEED_MEAN
                     /\ low_motion_ratio > END_LOW_MOTION
        confidence == IF is_ending THEN END_CONF_TRUE ELSE END_CONF_FALSE
    IN  << is_ending, confidence >>

\* TripDetectionML._fallback_trip_end_detection
fallback_trip_end_detection(features) ==
    LET accel_mean == Get(features, "accel_mean", 0)
        speed_mean == Get(features, "speed_mean", 0)
        low_motion_ratio == Get(features, "low_motion_ratio", 0)
        is_ending == /\ accel_mean < END_ACCEL_MEAN
                     /\ speed_mean < END_SPEED_MEAN
                     /\ low_motion_ratio > END_LOW_MOTION
        confidence == IF is_ending THEN END_CONF_TRUE ELSE END_CONF_FALSE
    IN  << is_ending, confidence >>

-----------------------------------------------------------------------------
(* TripDetectionML: the model path *)

\* TripDetectionML._prepare_feature_vector
\* the vector with speed_mean and speed_std in each other's place
prepare_feature_vector_Swapped(features) ==
    [i \in 1..Len(feature_order) |->
        Get(features, feature_order[IF i = 14 THEN 15 ELSE IF i = 15 THEN 14 ELSE i], 0)]

prepare_feature_vector(features) ==
    [i \in 1..Len(feature_order) |-> Get(features, feature_order[i], 0)]

\* StandardScaler.transform raises: the scaler is not fitted (NotFittedError)
\* or the input is not finite
TransformRaises(sc, vector) ==
    \/ sc.kind # "fitted"
    \/ \E i \in DOMAIN vector : vector[i] >= Infinity

\* StandardScaler.transform: each column centred on the mean of the fit
\* (the mean of fit number v stands at 10 v)
ScalerTransform(sc, vector) ==
    [i \in DOMAIN vector |-> vector[i] - 10 * sc.ver]

\* model.predict / model.predict_proba raise
PredictRaises(m) == m.kind \notin {"fitted", "noproba"}
ProbaRaises(m) == m.kind # "fitted"

\* the trees of forest m that vote True on input x: the learned function,
\* opaque here, is a fixed function of the fit and of the input
Votes(m, x) == (SumTo(x, Len(feature_order)) + 37 * m.ver) % (N_ESTIMATORS + 1)

\* RandomForestClassifier.predict_proba(x)[0]: the shares of the two classes
\* (False, True), in hundredths
PredictProba(m, x) == << N_ESTIMATORS - Votes(m, x), Votes(m, x) >>

\* RandomForestClassifier.predict(x)[0]: the class of the larger share, the
\* first one (False) on a tie
Predict(m, x) == PredictProba(m, x)[2] > PredictProba(m, x)[1]

\* the except branch returning (False, 0.0) instead of the rule's answer
ModelPath_ReturnsDefault(sc, m, features, fallback) ==
    LET feature_vector == prepare_feature_vector(features)
        feature_vector_scaled == ScalerTransform(sc, feature_vector)
        prediction == Predict(m, feature_vector_scaled)
        proba == PredictProba(m, feature_vector_scaled)
        confidence == Max2(proba[1], proba[2])
    IN  IF TransformRaises(sc, feature_vector)
        THEN Result(FALSE, 0, "except", "transform")
        ELSE IF PredictRaises(m)
        THEN Result(FALSE, 0, "except", "predict")
        ELSE IF ProbaRaises(m)
        THEN Result(FALSE, 0, "except", "predict_proba")
        ELSE Result(prediction, confidence, "model", "none")

\* the confidence taken as the margin of class True over class False
ModelPath_Margin(sc, m, features, fallback) ==
    LET feature_vector == prepare_feature_vector(features)
        feature_vector_scaled == ScalerTransform(sc, feature_vector)
        prediction == Predict(m, feature_vector_scaled)
        proba == PredictProba(m, feature_vector_scaled)
        confidence == proba[2] - proba[1]
    IN  IF TransformRaises(sc, feature_vector)
        THEN Result(fallback[1], fallback[2], "except", "transform")
        ELSE IF PredictRaises(m)
        THEN Result(fallback[1], fallback[2], "except", "predict")
        ELSE IF ProbaRaises(m)
        THEN Result(fallback[1], fallback[2], "except", "predict_proba")
        ELSE Result(prediction, confidence, "model", "none")

\* the try block of predict_trip_start / predict_trip_end on classifier m,
\* and its except branch, which returns fallback
ModelPath(sc, m, features, fallback) ==
    LET feature_vector == prepare_feature_vector(features)
        feature_vector_scaled == ScalerTransform(sc, feature_vector)
        prediction == Predict(m, feature_vector_scaled)
        proba == PredictProba(m, feature_vector_scaled)
        confidence == Max2(proba[1], proba[2])
    IN  IF TransformRaises(sc, feature_vector)
        THEN Result(fallback[1], fallback[2], "except", "transform")
        ELSE IF PredictRaises(m)
        THEN Result(fallback[1], fallback[2], "except", "predict")
        ELSE IF ProbaRaises(m)
        THEN Result(fallback[1], fallback[2], "except", "predict_proba")
        ELSE Result(prediction, confidence, "model", "none")

\* predict_trip_start with the scaling done before the try block
predict_trip_start_ScalesBeforeTry(features) ==
    LET fallback == fallback_trip_start_detection(features)
    IN  IF ~is_trained \/ Truth(start_model) = "false"
        THEN Result(fallback[1], fallback[2], "fallback", "none")
        ELSE IF Truth(start_model) = "raises"
        THEN Raised("start_model")
        ELSE IF TransformRaises(scaler, prepare_feature_vector(features))
        THEN Raised("transform")
        ELSE ModelPath(scaler, start_model, features, fallback)

\* TripDetectionML.predict_trip_start
predict_trip_start(features) ==
    LET fallback == fallback_trip_start_detection(features)
    IN  IF ~is_trained \/ Truth(start_model) = "false"
        THEN Result(fallback[1], fallback[2], "fallback", "none")
        ELSE IF Truth(start_model) = "raises"
        THEN Raised("start_model")
        ELSE ModelPath(scaler, start_model, features, fallback)

\* TripDetectionML.predict_trip_end
predict_trip_end(features) ==
    LET fallback == fallback_trip_end_detection(features)
    IN  IF ~is_trained \/ Truth(end_model) = "false"
        THEN Result(fallback[1], fallback[2], "fallback", "none")
        ELSE IF Truth(end_model) = "raises"
        THEN Raised("end_model")
        ELSE ModelPath(scaler, end_model, features, fallback)

\* TripDetectionML._load_models: the three loads in order, the first that
\* raises ends the loading
load_models(st) ==
    LET start == IF Exists(st, "trip_start_model") THEN st["trip_start_model"] ELSE None
        end == IF Exists(st, "trip_end_model") THEN st["trip_end_model"] ELSE None
        sc == IF Exists(st, "trip_detection_scaler")
              THEN st["trip_detection_scaler"] ELSE Unfitted
    IN  IF st["trip_start_model"].kind = "corrupt"
        THEN [start_model |-> None, end_model |-> None, scaler |-> Unfitted,
              is_trained |-> FALSE]
        ELSE IF st["trip_end_model"].kind = "corrupt"
        THEN [start_model |-> start, end_model |-> None, scaler |-> Unfitted,
              is_trained |-> FALSE]
        ELSE IF st["trip_detection_scaler"].kind = "corrupt"
        THEN [start_model |-> start, end_model |-> end, scaler |-> Unfitted,
              is_trained |-> FALSE]
        ELSE [start_model |-> start, end_model |-> end, scaler |-> sc,
              is_trained |-> Truth(start) = "true" /\ Truth(end) = "true"]

-----------------------------------------------------------------------------
(* ml_service *)

\* the module-level load of mode_model.pkl
load_mode_model(st) ==
    IF LoadRaises(st, "mode_model") THEN None ELSE st["mode_model"]

\* LabelEncoder.classes_ of train_model.py (sorted)
ModeClasses == << "bike", "bus", "car", "walk" >>

\* the mode rule with comparisons that are not strict
ModeFallback_NonStrict(features) ==
    LET avg_speed == Get(features, "avg_speed", 0)
    IN  IF avg_speed <= WALK_BELOW THEN "walk"
        ELSE IF avg_speed <= BIKE_BELOW THEN "bike"
        ELSE IF avg_speed <= BUS_BELOW THEN "bus"
        ELSE "car"

\* the fallback branch of predict_mode
ModeFallback(features) ==
    LET avg_speed == Get(features, "avg_speed", 0)
    IN  IF avg_speed < WALK_BELOW THEN "walk"
        ELSE IF avg_speed < BIKE_BELOW THEN "bike"
        ELSE IF avg_speed < BUS_BELOW THEN "bus"
        ELSE "car"

\* model.predict(X)[0]: the class index the learned function gives
ModePredict(m, X) == (SumTo(X, Len(FEATURES)) + m.ver) % Len(ModeClasses)

\* the row predict_mode hands to the model
mode_input(features) ==
    [i \in 1..Len(FEATURES) |-> Get(features, FEATURES[i], 0)]

\* ml_service.predict_mode: what it returns is a str
predict_mode(features) ==
    LET X == mode_input(features)
        prediction_encoded == ModePredict(model, X)
    IN  IF model = None
        THEN [status |-> "returned", label |-> ModeFallback(features), path |-> "fallback"]
        ELSE IF \/ LoadRaises(store, "label_encoder")
                \/ model.kind # "fitted"
                \/ store["label_encoder"].kind # "fitted"
        THEN [status |-> "returned", label |-> "unknown", path |-> "except"]
        ELSE [status |-> "returned", label |-> ModeClasses[prediction_encoded + 1],
              path |-> "model"]

-----------------------------------------------------------------------------
(* The state after the process has started *)

ClassifierFiles == {Absent, Corrupt, Fitted(0), NoPredict, NoProba}
ScalerFiles == {Absent, Corrupt, Fitted(0)}
ModeModelFiles == {Absent, Corrupt, Fitted(0), NoPredict}
EncoderFiles == {Absent, Corrupt, Fitted(0), NoInverse}

\* what app/ml_models may hold when the process starts
Stores ==
    [ mode_model : ModeModelFiles, label_encoder : EncoderFiles,
      trip_start_model : ClassifierFiles, trip_end_model : ClassifierFiles,
      trip_detection_scaler : ScalerFiles ]

\* a checkout of the repository: app/ml_models holds nothing
EmptyStore == [name \in ArtifactNames |-> Absent]

Users == {1, 2}
TripIds == {1, 2}      \* trip 2 is in no row of the table

NoCall == [op |-> "none"]

\* NULL in a column of the trips table (times are positive)
Null == 0

\* the row start_trip inserts for user_id: Trip(user_id=current_user.id),
\* start_time being the server default
NewTrip(user_id) ==
    [user_id |-> user_id, predicted_mode |-> "null", confirmed_mode |-> "null",
     start_time |-> 1, end_time |-> Null, purpose |-> "null", duration_min |-> Null]

\* no train_models call is running
Idle == [pc |-> "idle"]

\* the objects a prediction reads
Artifacts ==
    [start_model |-> start_model, end_model |-> end_model, scaler |-> scaler,
     model |-> model, label_encoder |-> store["label_encoder"]]

AbsentIn(st) == {name \in ArtifactNames : st[name] = Absent}

\* the call (op, features) repeats the last call of the process with the
\* same objects loaded
Repeats(op, features) ==
    /\ last.op = op
    /\ last.features = features
    /\ last.art = Artifacts

\* import of ml_service and construction of the global TripDetectionML
Loaded(st) ==
    /\ model = load_mode_model(st)
    /\ start_model = load_models(st).start_model
    /\ end_model = load_models(st).end_model
    /\ scaler = load_models(st).scaler
    /\ is_trained = load_models(st).is_trained

\* the process started on a store of S, apart from the record of its calls
Started(S) ==
    /\ store \in S
    /\ Loaded(store)
    /\ boot = AbsentIn(store)
    /\ fresh = TRUE
    /\ ret = "none"
    /\ fits = 0
    /\ trips = [t \in {1} |-> NewTrip(1)]
    /\ training = Idle
    /\ ml_training_data = << >>
    /\ inflight = [r \in {} |-> 0]
    /\ clock = 1

InitOn(S) ==
    /\ Started(S)
    /\ last = NoCall

-----------------------------------------------------------------------------
(* Calls of the Boundary Detector *)

\* a caller invokes trip_detection_ml.predict_trip_start(features)
PredictTripStart(features) ==
    /\ last' = [op |-> "predict_trip_start", features |-> features,
                result |-> predict_trip_start(features), art |-> Artifacts,
                is_trained |-> is_trained, training |-> training,
                again |-> Repeats("predict_trip_start", features)]
    /\ UNCHANGED <<store, model, detector, boot, fresh, fits, ret, trips, training, requests>>

\* a caller invokes trip_detection_ml.predict_trip_end(features)
PredictTripEnd(features) ==
    /\ last' = [op |-> "predict_trip_end", features |-> features,
                result |-> predict_trip_end(features), art |-> Artifacts,
                is_trained |-> is_trained, training |-> training,
                again |-> Repeats("predict_trip_end", features)]
    /\ UNCHANGED <<store, model, detector, boot, fresh, fits, ret, trips, training, requests>>

\* POST /ml/predict_trip_detection: both predictions for one feature mapping;
\* an exception of either becomes a 500
PredictTripDetection(features) ==
    LET start == predict_trip_start(features)
        end == IF start.status = "raised" THEN NotCalled ELSE predict_trip_end(features)
        ok == start.status = "returned" /\ end.status = "returned"
    IN  /\ last' = [op |-> "predict_trip_detection", features |-> features,
                    start |-> start, end |-> end,
                    status |-> IF ok THEN 200 ELSE 500, art |-> Artifacts,
                    is_trained |-> is_trained,
                    again |-> Repeats("predict_trip_detection", features)]
        /\ UNCHANGED <<store, model, detector, boot, fresh, fits, ret, trips, training, requests>>

FailurePoints ==
    {"none", "assemble", "scaler_fit", "start_fit", "end_fit",
     "save_start", "save_end", "save_scaler"}

CorpusSizes == {0, MIN_TRAINING - 1, MIN_TRAINING}

\* the file a joblib.dump that raised leaves behind: the old one when the
\* file could not be opened, a truncated one otherwise
AfterFailedDump(old, truncated) == IF truncated THEN Corrupt ELSE old

\* is_trained set on every call that passes the size check
IsTrainedAfter_Always(was, scaler_saved) == TRUE

\* is_trained cleared by a call that fails
IsTrainedAfter_Reset(was, scaler_saved) == scaler_saved

\* is_trained never set by train_models
IsTrainedAfter_Kept(was, scaler_saved) == was

\* is_trained after train_models: set once the three artifacts are saved
IsTrainedAfter(was, scaler_saved) == was \/ scaler_saved

\* the size check lets a corpus of 99 examples through
insufficient_training_data_OffByOne(n) == n < MIN_TRAINING - 1

\* `not training_data or len(training_data) < 100`
insufficient_training_data(n) == n = 0 \/ n < MIN_TRAINING

\* what trip_detection_ml.train_models(training_data) does to the service,
\* the store and its return value when len(training_data) = n; fail names
\* the statement that raises, if any
train_models(n, fail, truncated) ==
    IF insufficient_training_data(n)
    THEN /\ fail = "none" /\ ~truncated
         /\ ret' = "False"
         /\ UNCHANGED <<store, model, detector, boot, fresh, fits, trips, training, requests>>
    ELSE LET v == fits + 1
             assembled == fail # "assemble"
             scaled == assembled /\ fail # "scaler_fit"
             start_fit == scaled /\ fail # "start_fit"
             end_fit == start_fit /\ fail # "end_fit"
             start_saved == end_fit /\ fail # "save_start"
             end_saved == start_saved /\ fail # "save_end"
             scaler_saved == end_saved /\ fail # "save_scaler"
         IN  /\ scaled => fits < MaxTrain
             /\ truncated => fail \in {"save_start", "save_end", "save_scaler"}
             /\ fits' = IF scaled THEN v ELSE fits
             /\ fresh' = FALSE
             /\ scaler' = IF scaled THEN Fitted(v)
                          ELSE IF assembled THEN Unfitted ELSE scaler
             /\ start_model' = IF start_fit THEN Fitted(v)
                               ELSE IF scaled THEN Unfitted ELSE start_model
             /\ end_model' = IF end_fit THEN Fitted(v)
                             ELSE IF start_fit THEN Unfitted ELSE end_model
             /\ store' =
                  [store EXCEPT
                     !["trip_start_model"] =
                         IF start_saved THEN Fitted(v)
                         ELSE IF end_fit THEN AfterFailedDump(@, truncated) ELSE @,
                     !["trip_end_model"] =
                         IF end_saved THEN Fitted(v)
                         ELSE IF start_saved THEN AfterFailedDump(@, truncated) ELSE @,
                     !["trip_detection_scaler"] =
                         IF scaler_saved THEN Fitted(v)
                         ELSE IF end_saved THEN AfterFailedDump(@, truncated) ELSE @]
             /\ is_trained' = IsTrainedAfter(is_trained, scaler_saved)
             /\ ret' = IF scaler_saved THEN "True" ELSE "False"
             /\ UNCHANGED <<model, boot, trips, training, requests>>

\* a caller invokes trip_detection_ml.train_models(training_data)
TrainModels(n, fail, truncated) ==
    /\ train_models(n, fail, truncated)
    /\ UNCHANGED last

\* the process is started again: both services load what the store holds
Restart ==
    /\ model' = load_mode_model(store)
    /\ start_model' = load_models(store).start_model
    /\ end_model' = load_models(store).end_model
    /\ scaler' = load_models(store).scaler
    /\ is_trained' = load_models(store).is_trained
    /\ boot' = AbsentIn(store)
    /\ fresh' = TRUE
    /\ ret' = "none"
    /\ last' = NoCall
    /\ UNCHANGED <<store, fits, trips, training, requests>>

-----------------------------------------------------------------------------
(* Calls of the Mode Classifier *)

\* a caller invokes ml_service.predict_mode(features)
PredictMode(features) ==
    /\ last' = [op |-> "predict_mode", features |-> features,
                result |-> predict_mode(features), art |-> Artifacts,
                again |-> Repeats("predict_mode", features)]
    /\ UNCHANGED <<store, model, detector, boot, fresh, fits, ret, trips, training, requests>>

\* what extract_features(db, trip_id) hands to the handler: {} for a trip
\* without GPS logs, else all six keys
ExtractedFeatures ==
    {EmptyDict} \cup
    { [k \in {FEATURES[i] : i \in 1..Len(FEATURES)} |->
          IF k \in {"avg_speed", "max_speed"} THEN a
          ELSE IF k = "distance_km" THEN d ELSE 0] :
      a \in {0, 490, 1500, 4000}, d \in {0, 120} }

\* the test passing every mapping that has a key
AnyValue_AnyKey(features) == DOMAIN features # {}

\* any(features.values())
AnyValue(features) == \E k \in DOMAIN features : features[k] # 0

\* POST /trip/predict_mode/{trip_id} by current_user; features is what
\* extract_features returns for the trip
PredictTripMode(current_user, trip_id, features) ==
    LET found == trip_id \in DOMAIN trips /\ trips[trip_id].user_id = current_user
        predicted_mode == predict_mode(features).label
        request == [current_user |-> current_user, trip_id |-> trip_id,
                    features |-> features]
    IN  IF ~found
        THEN /\ last' = [op |-> "predict_trip_mode", status |-> 404, request |-> request,
                         body |-> [detail |-> "Trip not found or not owned by user"]]
             /\ UNCHANGED <<store, model, detector, boot, fresh, fits, ret, trips, training, requests>>
        ELSE IF features = EmptyDict \/ ~AnyValue(features)
        THEN /\ last' = [op |-> "predict_trip_mode", status |-> 400, request |-> request,
                         body |-> [detail |-> "Not enough GPS data to predict"]]
             /\ UNCHANGED <<store, model, detector, boot, fresh, fits, ret, trips, training, requests>>
        ELSE /\ trips' = [trips EXCEPT ![trip_id].predicted_mode = predicted_mode]
             /\ last' = [op |-> "predict_trip_mode", status |-> 200, request |-> request,
                         body |-> [trip_id |-> trip_id,
                                   predicted_mode |-> predicted_mode,
                                   features |-> features]]
             /\ UNCHANGED <<store, model, detector, boot, fresh, fits, ret, training, requests>>

-----------------------------------------------------------------------------
(* Specifications *)

\* the stores in which only the Boundary Detector's (resp. the Mode
\* Classifier's) artifacts may be present
DetectorStores == {st \in Stores : st.mode_model = Absent /\ st.label_encoder = Absent}
ModeStores ==
    {st \in Stores : /\ st.trip_start_model = Absent /\ st.trip_end_model = Absent
                     /\ st.trip_detection_scaler = Absent}

\* The two services with whatever artifacts the store holds for one of them
\* (they share no artifact), serving requests and retraining.
Init == InitOn(DetectorStores \cup ModeStores)

Next ==
    \/ \E f \in SampleFeatureMaps : PredictTripStart(f)
    \/ \E f \in SampleFeatureMaps : PredictTripEnd(f)
    \/ \E f \in SampleTrajectoryMaps : PredictMode(f)
    \/ \E n \in CorpusSizes, fail \in FailurePoints, truncated \in BOOLEAN :
          TrainModels(n, fail, truncated)
    \/ Restart

Spec == Init /\ [][Next]_vars

\* The rules alone: nothing is in the store, every request is served by the
\* fallback rules, over all the feature mappings.
InitFallback == InitOn({EmptyStore})

NextFallback ==
    \/ \E f \in FeatureMaps : PredictTripDetection(f)
    \/ \E f \in TrajectoryMaps : PredictMode(f)

SpecFallback == InitFallback /\ [][NextFallback]_vars

\* The Mode Classifier behind its handler.
InitMode == InitOn(ModeStores)

NextMode ==
    \/ \E f \in SampleTrajectoryMaps : PredictMode(f)
    \/ \E u \in Users, t \in TripIds, f \in ExtractedFeatures : PredictTripMode(u, t, f)
    \/ Restart

SpecMode == InitMode /\ [][NextMode]_vars

-----------------------------------------------------------------------------
(* Properties: the fallback rules (checked under SpecFallback) *)

\* the Boundary Detector answers recorded by the last call, with the
\* classifier each would use
DetectorAnswers ==
    IF last.op = "predict_trip_start"
    THEN {[which |-> "start", r |-> last.result, m |-> last.art.start_model]}
    ELSE IF last.op = "predict_trip_end"
    THEN {[which |-> "end", r |-> last.result, m |-> last.art.end_model]}
    ELSE IF last.op = "predict_trip_detection"
    THEN {[which |-> "start", r |-> last.start, m |-> last.art.start_model],
          [which |-> "end", r |-> last.end, m |-> last.art.end_model]}
    ELSE {}

\* the pair the fallback rule of that side gives
RuleAnswer(which, features) ==
    IF which = "start" THEN fallback_trip_start_detection(features)
    ELSE fallback_trip_end_detection(features)

\* what the caller gets back: the pair, without the path taken
Pair(r) == << r.flag, r.confidence >>

\* C1: with no mode model loaded, predict_mode reads avg_speed (0 when the
\* key is missing) and answers walk below 5 km/h, bike from 5 and below 15,
\* bus from 15 and below 40, car from 40 on; the comparisons are strict.
C1_ModeFallbackThresholds ==
    (last.op = "predict_mode" /\ last.art.model = None) =>
        LET v == IF "avg_speed" \in DOMAIN last.features
                 THEN last.features["avg_speed"] ELSE 0
        IN  /\ last.result.status = "returned"
            /\ last.result.label =
                  CASE v < 500 -> "walk"
                    [] v >= 500 /\ v < 1500 -> "bike"
                    [] v >= 1500 /\ v < 4000 -> "bus"
                    [] v >= 4000 -> "car"
            /\ ("avg_speed" \notin DOMAIN last.features) => last.result.label = "walk"

\* C1 witness: exactly 5 km/h with no model loaded is answered bike
C1_Witness ==
    /\ last.op = "predict_mode"
    /\ last.art.model = None
    /\ "avg_speed" \in DOMAIN last.features
    /\ last.features["avg_speed"] = 500
    /\ last.result.label = "bike"

\* C5: the start rule fires iff accel_mean > 1.0, accel_std > 0.5,
\* speed_mean > 1.0 and high_motion_ratio > 0.3 all hold strictly, a missing
\* key reading as 0; its confidence is 0.6 when it fires and 0.4 otherwise.
C5_StartRule ==
    \A c \in DetectorAnswers :
        (c.which = "start" /\ c.r.path = "fallback") =>
            LET f == last.features
                fires == /\ Get(f, "accel_mean", 0) > 100
                         /\ Get(f, "accel_std", 0) > 50
                         /\ Get(f, "speed_mean", 0) > 100
                         /\ Get(f, "high_motion_ratio", 0) > 30
            IN  /\ c.r.flag = fires
                /\ c.r.confidence = IF fires THEN 60 ELSE 40

\* C5 witness: accel_mean 1.2, accel_std 0.6, speed_mean 2.0 and
\* high_motion_ratio 0.4 alone give (True, 0.6)
C5_Witness ==
    /\ last.op = "predict_trip_detection"
    /\ last.features = [accel_mean |-> 120, accel_std |-> 60,
                        speed_mean |-> 200, high_motion_ratio |-> 40]
    /\ last.start.path = "fallback"
    /\ Pair(last.start) = << TRUE, 60 >>

\* C6: the end rule fires iff accel_mean < 0.8, speed_mean < 2.0 and
\* low_motion_ratio > 0.7 all hold strictly, a missing key reading as 0;
\* its confidence is 0.7 when it fires and 0.3 otherwise.
C6_EndRule ==
    \A c \in DetectorAnswers :
        (c.which = "end" /\ c.r.path = "fallback") =>
            LET f == last.features
                fires == /\ Get(f, "accel_mean", 0) < 80
                         /\ Get(f, "speed_mean", 0) < 200
                         /\ Get(f, "low_motion_ratio", 0) > 70
            IN  /\ c.r.flag = fires
                /\ c.r.confidence = IF fires THEN 70 ELSE 30

\* C6 witness: low_motion_ratio 0.8 alone, the two missing keys reading as
\* 0, gives (True, 0.7)
C6_Witness ==
    /\ last.op = "predict_trip_detection"
    /\ last.end.path = "fallback"
    /\ last.features = [low_motion_ratio |-> 80]
    /\ Pair(last.end) = << TRUE, 70 >>

\* C7 as stated: on the fallback path each of the four combinations of the
\* start flag and the end flag is given by some feature mapping.
C7_AllFourOutcomes ==
    ~is_trained =>
        \A s \in BOOLEAN, e \in BOOLEAN :
            \E f \in FeatureMaps :
                /\ predict_trip_start(f).flag = s
                /\ predict_trip_end(f).flag = e

\* C7 amended: the two answers are computed separately, and while the rules
\* answer, start only, end only and neither are each given by some feature
\* mapping but never both, the start rule asking accel_mean > 1.0 and the
\* end rule accel_mean < 0.8.
C7_RulesNeverBothFire ==
    /\ (/\ last.op = "predict_trip_detection"
        /\ last.start.path \in {"fallback", "except"}
        /\ last.end.path \in {"fallback", "except"})
          => ~(last.start.flag /\ last.end.flag)
    /\ ~is_trained =>
          \A o \in {<< TRUE, FALSE >>, << FALSE, TRUE >>, << FALSE, FALSE >>} :
              \E f \in FeatureMaps :
                  /\ predict_trip_start(f).flag = o[1]
                  /\ predict_trip_end(f).flag = o[2]

\* C7 witness: one request on which the start rule fires and the end rule
\* does not
C7_Witness ==
    /\ last.op = "predict_trip_detection"
    /\ last.start.path = "fallback" /\ last.end.path = "fallback"
    /\ last.start.flag /\ ~last.end.flag
    /\ Get(last.features, "low_motion_ratio", 0) > 70
    /\ Get(last.features, "speed_mean", 0) < 200

-----------------------------------------------------------------------------
(* Properties: what predict_mode hands back (checked under SpecMode) *)

ModeLabels == {"walk", "bike", "bus", "car"}

\* C2: every mode prediction is a label with a confidence in [0,1], on the
\* fallback path and on the model path, and the 200 response of the
\* predict_mode endpoint carries predicted_mode and confidence.
C2_ModePredictionHasConfidence ==
    /\ last.op = "predict_mode" =>
          /\ "confidence" \in DOMAIN last.result
          /\ last.result.confidence >= 0
          /\ last.result.confidence <= 100
    /\ (last.op = "predict_trip_mode" /\ last.status = 200) =>
          {"predicted_mode", "confidence"} \subseteq DOMAIN last.body

\* C3: when a mode model is loaded and the prediction fails, predict_mode
\* returns the label the speed rule gives for the same features, so that
\* every result is one of walk, bike, bus, car.
C3_ModeFailureFallsBack ==
    last.op = "predict_mode" =>
        /\ last.result.status = "returned"
        /\ last.result.label \in ModeLabels
        /\ (last.art.model # None /\ last.result.path = "except") =>
              last.result.label = ModeFallback(last.features)

-----------------------------------------------------------------------------
(* Properties: the Boundary Detector with artifacts (checked under Spec) *)

\* a step of the model path raises for this call
InferenceRaises(c) ==
    \/ TransformRaises(last.art.scaler, prepare_feature_vector(last.features))
    \/ PredictRaises(c.m)
    \/ ProbaRaises(c.m)

\* C4: with trained boundary models loaded, when a step of the model path
\* raises (scaler.transform, model.predict or predict_proba; feature
\* preparation, a list of lookups, raises on no mapping of names to numbers),
\* predict_trip_start (resp. predict_trip_end) raises nothing and returns
\* exactly the pair its fallback rule returns for the same features.
C4_InferenceFailureFallsBack ==
    \A c \in DetectorAnswers :
        (/\ c.r.status # "notcalled"
         /\ last.is_trained
         /\ Truth(c.m) = "true"
         /\ InferenceRaises(c))
          => /\ c.r.status = "returned"
             /\ Pair(c.r) = RuleAnswer(c.which, last.features)

\* C4 witness: trained models loaded, scaler.transform raised, and
\* predict_trip_start answered (True, 0.6) as its rule does
C4_Witness ==
    /\ last.op = "predict_trip_start"
    /\ last.is_trained
    /\ Truth(last.art.start_model) = "true"
    /\ last.result.failed = "transform"
    /\ Pair(last.result) = << TRUE, 60 >>

\* C8: the confidence predict_trip_start and predict_trip_end return lies
\* in [0,1] on the fallback path, on the model path and after an inference
\* exception.
C8_ConfidenceInUnitInterval ==
    \A c \in DetectorAnswers :
        c.r.status = "returned" =>
            c.r.confidence >= 0 /\ c.r.confidence <= 100

\* C8 witness: a model-path answer False whose confidence is the share of
\* the trees voting False
C8_Witness ==
    /\ last.op = "predict_trip_end"
    /\ last.result.path = "model"
    /\ ~last.result.flag
    /\ last.result.confidence > 50

DetectorArtifacts == {"trip_start_model", "trip_end_model", "trip_detection_scaler"}

\* C9: when trip_start_model, trip_end_model or trip_detection_scaler was
\* absent as the Boundary Detector loaded, predict_trip_start and
\* predict_trip_end return the fallback rule's result and raise nothing,
\* whatever the features; and predict_mode answers by the speed rule when
\* mode_model was absent.
C9_AbsentArtifactMeansFallback ==
    /\ (fresh /\ boot \cap DetectorArtifacts # {}) =>
          \A c \in DetectorAnswers :
              /\ c.r.status = "returned"
              /\ Pair(c.r) = RuleAnswer(c.which, last.features)
    /\ ("mode_model" \in boot /\ last.op = "predict_mode") =>
          /\ last.result.status = "returned"
          /\ last.result.label = ModeFallback(last.features)

\* C9 witness: both classifiers loaded and only the scaler absent, where
\* the answer comes from the rule after the unfitted scaler raised
C9_Witness ==
    /\ fresh
    /\ boot \cap DetectorArtifacts = {"trip_detection_scaler"}
    /\ last.op = "predict_trip_start"
    /\ last.is_trained
    /\ last.result.failed = "transform"
    /\ Pair(last.result) = RuleAnswer("start", last.features)

PredictOps == {"predict_mode", "predict_trip_start", "predict_trip_end"}

-----------------------------------------------------------------------------
(* Serialisation of a feature mapping into model input *)

MaxItems == 3          \* entries of a mapping as it is written down

\* keys of both schemas and one that belongs to neither
ItemKeys ==
    {"accel_mean", "speed_mean", "speed_std", "motion_consistency",
     "avg_speed", "distance_km", "extra"}

\* a dict literal: its (key, value) entries in insertion order, keys distinct
ItemLists ==
    UNION { { s \in [1..n -> ItemKeys \X {11, 22}] :
                \A i \in 1..n, j \in 1..n : i # j => s[i][1] # s[j][1] } :
            n \in 0..MaxItems }

\* the dict those entries make: lookups go by key
DictOf(items) ==
    [k \in {items[i][1] : i \in DOMAIN items} |->
        items[CHOOSE i \in DOMAIN items : items[i][1] = k][2]]

\* train_trip_detection.py: the columns of the training matrix
feature_cols ==
    << "accel_mean", "accel_std", "accel_max", "accel_min", "accel_median",
       "accel_q75", "accel_q25", "gyro_mean", "gyro_std", "gyro_max",
       "accel_variance", "accel_skewness", "accel_kurtosis",
       "speed_mean", "speed_std", "speed_max",
       "data_points", "time_span",
       "high_motion_ratio", "low_motion_ratio", "motion_consistency" >>

\* a mapping about to be serialised
GivenItems == { [op |-> "given_items", items |-> items] : items \in ItemLists }

\* a caller serialises the mapping written as items: the row of the Boundary
\* Detector (also the row train_models appends) and the row of predict_mode
PrepareFeatureVector ==
    /\ last.op = "given_items"
    /\ last' = [op |-> "prepare_feature_vector", items |-> last.items,
                vector |-> prepare_feature_vector(DictOf(last.items)),
                X |-> mode_input(DictOf(last.items))]
    /\ UNCHANGED <<store, model, detector, boot, fresh, fits, ret, trips, training, requests>>

-----------------------------------------------------------------------------
(* TripDetectionML.extract_motion_features *)

MIN_WINDOW == 10
HIGH_MOTION == 200
LOW_MOTION == 50
MaxWindow == 11        \* samples of a sensor window

\* A reading, by the magnitudes the features are computed from: net is
\* |sqrt(ax^2 + ay^2 + az^2) - 9.81| (981 for a reading without acceleration
\* keys), gyro is sqrt(gx^2 + gy^2 + gz^2), speed is -1 when the key is
\* missing or null.
Readings ==
    { [net |-> 0, gyro |-> 0, speed |-> -1],
      [net |-> 50, gyro |-> 10, speed |-> 0],
      [net |-> 200, gyro |-> 30, speed |-> 150],
      [net |-> 250, gyro |-> 40, speed |-> 300],
      [net |-> 981, gyro |-> 0, speed |-> -1] }

NullWindow == << [net |-> -1, gyro |-> -1, speed |-> -1, timestamp |-> -1] >>

\* windows sampled at 1 Hz: a readings of one kind, then readings of another
Windows ==
    {NullWindow} \cup
    { [i \in 1..n |-> [net |-> (IF i <= a THEN r1 ELSE r2).net,
                       gyro |-> (IF i <= a THEN r1 ELSE r2).gyro,
                       speed |-> (IF i <= a THEN r1 ELSE r2).speed,
                       timestamp |-> i]] :
        n \in 0..MaxWindow, a \in 0..MaxWindow, r1 \in Readings, r2 \in Readings }

RECURSIVE SumSeq(_)
SumSeq(x) == IF x = << >> THEN 0 ELSE Head(x) + SumSeq(Tail(x))

\* np.mean, np.max, np.min of a non-empty array
Mean(x) == SumSeq(x) \div Len(x)
MaxOf(x) == CHOOSE v \in {x[i] : i \in DOMAIN x} : \A i \in DOMAIN x : x[i] <= v
MinOf(x) == CHOOSE v \in {x[i] : i \in DOMAIN x} : \A i \in DOMAIN x : v <= x[i]

\* the k-th smallest element of x
Sorted(x, k) ==
    CHOOSE v \in {x[i] : i \in DOMAIN x} :
        /\ Cardinality({i \in DOMAIN x : x[i] <= v}) >= k
        /\ Cardinality({i \in DOMAIN x : x[i] < v}) < k

\* np.percentile(x, q): linear interpolation between the two neighbours of
\* rank (n - 1) q / 100
Percentile(x, q) ==
    LET pos == (Len(x) - 1) * q
        lo == pos \div 100
        frac == pos % 100
        hi == IF lo + 2 <= Len(x) THEN lo + 2 ELSE lo + 1
    IN  Sorted(x, lo + 1) + ((Sorted(x, hi) - Sorted(x, lo + 1)) * frac) \div 100

\* np.var and np.std of a non-empty array
Var(x) ==
    LET mean == Mean(x)
    IN  SumSeq([i \in DOMAIN x |-> (x[i] - mean) * (x[i] - mean)]) \div Len(x)

Std(x) ==
    LET var == Var(x)
    IN  CHOOSE r \in 0..MaxOf(x) : r * r <= var /\ var < (r + 1) * (r + 1)

\* (x[i] - mean) / std for each i, in tenths
ZScores(x) ==
    LET mean == Mean(x)
        std == Std(x)
    IN  [i \in DOMAIN x |-> ((x[i] - mean) * 10) \div std]

\* TripDetectionML._skewness
skewness(data) ==
    IF Len(data) < 3 THEN 0
    ELSE IF Std(data) = 0 THEN 0
    ELSE LET z == ZScores(data)
         IN  SumSeq([i \in DOMAIN data |-> z[i] * z[i] * z[i]]) \div (Len(data) * 10)

\* TripDetectionML._kurtosis
kurtosis(data) ==
    IF Len(data) < 4 THEN 0
    ELSE IF Std(data) = 0 THEN 0
    ELSE LET z == ZScores(data)
         IN  SumSeq([i \in DOMAIN data |-> z[i] * z[i] * z[i] * z[i]])
             \div (Len(data) * 100) - 300

\* np.sum(net_acceleration > 2.0)
high_motion_samples(net_acceleration) ==
    Cardinality({i \in DOMAIN net_acceleration : net_acceleration[i] > HIGH_MOTION})

\* the low-motion count taken with a threshold above the high-motion one
low_motion_samples_Overlapping(net_acceleration) ==
    Cardinality({i \in DOMAIN net_acceleration :
                   net_acceleration[i] < HIGH_MOTION + 100})

\* np.sum(net_acceleration < 0.5)
low_motion_samples(net_acceleration) ==
    Cardinality({i \in DOMAIN net_acceleration : net_acceleration[i] < LOW_MOTION})

\* the features dict of a window that is long enough
motion_features(sensor_data) ==
    LET n == Len(sensor_data)
        net_acceleration == [i \in 1..n |-> sensor_data[i].net]
        gyro_magnitude == [i \in 1..n |-> sensor_data[i].gyro]
        with_speed == SelectSeq(sensor_data, LAMBDA d : d.speed # -1)
        speeds == [i \in 1..Len(with_speed) |-> with_speed[i].speed]
    IN  [k \in {feature_order[i] : i \in 1..Len(feature_order)} |->
           CASE k = "accel_mean" -> Mean(net_acceleration)
             [] k = "accel_std" -> Std(net_acceleration)
             [] k = "accel_max" -> MaxOf(net_acceleration)
             [] k = "accel_min" -> MinOf(net_acceleration)
             [] k = "accel_median" -> Percentile(net_acceleration, 50)
             [] k = "accel_q75" -> Percentile(net_acceleration, 75)
             [] k = "accel_q25" -> Percentile(net_acceleration, 25)
             [] k = "gyro_mean" -> Mean(gyro_magnitude)
             [] k = "gyro_std" -> Std(gyro_magnitude)
             [] k = "gyro_max" -> MaxOf(gyro_magnitude)
             [] k = "accel_variance" -> Var(net_acceleration) \div 100
             [] k = "accel_skewness" -> skewness(net_acceleration)
             [] k = "accel_kurtosis" -> kurtosis(net_acceleration)
             [] k = "speed_mean" -> IF Len(speeds) > 0 THEN Mean(speeds) ELSE 0
             [] k = "speed_std" -> IF Len(speeds) > 0 THEN Std(speeds) ELSE 0
             [] k = "speed_max" -> IF Len(speeds) > 0 THEN MaxOf(speeds) ELSE 0
             [] k = "data_points" -> 100 * n
             [] k = "time_span" ->
                   IF n > 1
                   THEN 100 * (sensor_data[n].timestamp - sensor_data[1].timestamp)
                   ELSE 0
             [] k = "high_motion_ratio" ->
                   (100 * high_motion_samples(net_acceleration)) \div n
             [] k = "low_motion_ratio" ->
                   (100 * low_motion_samples(net_acceleration)) \div n
             [] k = "motion_consistency" ->
                   IF Mean(net_acceleration) = 0 THEN 100
                   ELSE 100 - (100 * Std(net_acceleration)) \div Mean(net_acceleration) ]

\* the window check taking a window of exactly ten samples for too short
extract_motion_features_Inclusive(sensor_data) ==
    IF sensor_data = NullWindow \/ Len(sensor_data) <= MIN_WINDOW
    THEN EmptyDict
    ELSE motion_features(sensor_data)

\* TripDetectionML.extract_motion_features
extract_motion_features(sensor_data) ==
    IF sensor_data = NullWindow \/ Len(sensor_data) < MIN_WINDOW
    THEN EmptyDict
    ELSE motion_features(sensor_data)

\* a window about to be summarised
GivenWindows == { [op |-> "given_window", sensor_data |-> w] : w \in Windows }

\* a caller invokes trip_detection_ml.extract_motion_features(sensor_data)
ExtractMotionFeatures ==
    /\ last.op = "given_window"
    /\ last' = [op |-> "extract_motion_features", sensor_data |-> last.sensor_data,
                result |-> extract_motion_features(last.sensor_data)]
    /\ UNCHANGED <<store, model, detector, boot, fresh, fits, ret, trips, training, requests>>

\* The feature pipeline of a process without artifacts
InitMotion ==
    /\ Started({EmptyStore})
    /\ last \in GivenItems \cup GivenWindows

NextMotion ==
    \/ PrepareFeatureVector
    \/ ExtractMotionFeatures

SpecMotion == InitMotion /\ [][NextMotion]_vars

-----------------------------------------------------------------------------
(* feature_extraction.extract_features *)

STOP_SPEED == 200
STOP_SECONDS == 30
MaxLogs == 4           \* rows of gps_logs enumerated freely

NoSpeed == -1          \* speed IS NULL
NoRow == -2            \* fetchone() gave no row
NullDistance == -1     \* distance_km IS NULL

LogSpeeds == {NoSpeed, 100, 200, 2000}
Gaps == {0, 10, 30}

\* the rows of a trip ORDER BY timestamp, given the speed of each row and
\* the gap (in seconds) between it and the row before
TripLogs(sp, g) ==
    [i \in DOMAIN sp |-> [speed |-> sp[i], timestamp |-> SumTo(g, i)]]

\* trips sampled at 1 Hz: low speed for n rows, then tail rows at 20 km/h
UniformLogs ==
    { [i \in 1..(n + tail) |->
          [speed |-> IF i <= n THEN 100 ELSE 2000, timestamp |-> i - 1]] :
        n \in {20, 30, 31, 35}, tail \in {0, 1, 2} }

DistanceRows == {NoRow, NullDistance, 0, 120}

\* logs[i].speed is not None and logs[i].speed < 2.0
IsLow(log) == log.speed # NoSpeed /\ log.speed < STOP_SPEED

\* the inner while loop: the first index from j on that is not low, or
\* len(logs) + 1
RECURSIVE RunEnd(_, _)
RunEnd(logs, j) ==
    IF j <= Len(logs) /\ IsLow(logs[j]) THEN RunEnd(logs, j + 1) ELSE j

\* the scan counting a run only when it lasts more than the threshold
RECURSIVE StopScan_Strict(_, _, _, _)
StopScan_Strict(logs, i, stop_count, visited) ==
    IF i > Len(logs)
    THEN [stop_count |-> stop_count, visited |-> visited]
    ELSE IF IsLow(logs[i])
    THEN LET j == RunEnd(logs, i)
             counted == /\ j <= Len(logs)
                        /\ logs[j].timestamp - logs[i].timestamp > STOP_SECONDS
         IN  StopScan_Strict(logs, j, IF counted THEN stop_count + 1 ELSE stop_count,
                             Append(visited, i))
    ELSE StopScan_Strict(logs, i + 1, stop_count, Append(visited, i))

\* the scan measuring a run that reaches the last row up to that row
RECURSIVE StopScan_CountsTrailing(_, _, _, _)
StopScan_CountsTrailing(logs, i, stop_count, visited) ==
    IF i > Len(logs)
    THEN [stop_count |-> stop_count, visited |-> visited]
    ELSE IF IsLow(logs[i])
    THEN LET j == RunEnd(logs, i)
             until == IF j <= Len(logs) THEN j ELSE Len(logs)
             counted == logs[until].timestamp - logs[i].timestamp >= STOP_SECONDS
         IN  StopScan_CountsTrailing(logs, j,
                                     IF counted THEN stop_count + 1 ELSE stop_count,
                                     Append(visited, i))
    ELSE StopScan_CountsTrailing(logs, i + 1, stop_count, Append(visited, i))

\* the outer while loop from index i on: the count of stops and the values
\* i takes
RECURSIVE StopScan(_, _, _, _)
StopScan(logs, i, stop_count, visited) ==
    IF i > Len(logs)
    THEN [stop_count |-> stop_count, visited |-> visited]
    ELSE IF IsLow(logs[i])
    THEN LET j == RunEnd(logs, i)
             counted == /\ j <= Len(logs)
                        /\ logs[j].timestamp - logs[i].timestamp >= STOP_SECONDS
         IN  StopScan(logs, j, IF counted THEN stop_count + 1 ELSE stop_count,
                      Append(visited, i))
    ELSE StopScan(logs, i + 1, stop_count, Append(visited, i))

\* the usable pairs of the acceleration loop, as the indices of their
\* second row
AccelerationPairs(logs) ==
    { i \in 2..Len(logs) :
        /\ logs[i].speed # NoSpeed
        /\ logs[i - 1].speed # NoSpeed
        /\ logs[i].timestamp - logs[i - 1].timestamp > 0 }

RECURSIVE SumOver(_, _)
SumOver(f, S) ==
    IF S = {} THEN 0
    ELSE LET i == CHOOSE i \in S : TRUE IN f[i] + SumOver(f, S \ {i})

\* the mean taken over all adjacent pairs, usable or not
average_acceleration_OverAllPairs(logs) ==
    IF Len(logs) < 2 THEN 0
    ELSE LET pairs == AccelerationPairs(logs)
             acc == [i \in pairs |->
                        (logs[i].speed - logs[i - 1].speed)
                        \div (logs[i].timestamp - logs[i - 1].timestamp)]
         IN  IF pairs = {} THEN 0 ELSE SumOver(acc, pairs) \div (Len(logs) - 1)

\* avg_acceleration, in hundredths of km/h per second
average_acceleration(logs) ==
    IF Len(logs) < 2 THEN 0
    ELSE LET pairs == AccelerationPairs(logs)
             acc == [i \in pairs |->
                        (logs[i].speed - logs[i - 1].speed)
                        \div (logs[i].timestamp - logs[i - 1].timestamp)]
         IN  IF pairs = {} THEN 0 ELSE SumOver(acc, pairs) \div Cardinality(pairs)

\* extract_features leaving distance_km out when the query gives no distance
extract_features_DropsDistance(logs, distance_row) ==
    IF logs = << >> THEN EmptyDict
    ELSE LET with_speed == SelectSeq(logs, LAMBDA log : log.speed # NoSpeed)
             speeds == [i \in 1..Len(with_speed) |-> with_speed[i].speed]
             some == Len(speeds) > 0
             features == [avg_speed |-> IF some THEN Mean(speeds) ELSE 0,
                          max_speed |-> IF some THEN MaxOf(speeds) ELSE 0,
                          std_speed |-> IF some THEN Std(speeds) ELSE 0,
                          avg_acceleration |-> average_acceleration(logs),
                          stop_frequency |-> StopScan(logs, 1, 0, << >>).stop_count,
                          distance_km |-> distance_row]
         IN  IF distance_row \in {NoRow, NullDistance}
             THEN [k \in DOMAIN features \ {"distance_km"} |-> features[k]]
             ELSE features

\* extract_features(db, trip_id), logs being the rows of the trip and
\* distance_row the answer of the distance query; stop_frequency is a count,
\* the other values are in hundredths
extract_features(logs, distance_row) ==
    IF logs = << >> THEN EmptyDict
    ELSE LET with_speed == SelectSeq(logs, LAMBDA log : log.speed # NoSpeed)
             speeds == [i \in 1..Len(with_speed) |-> with_speed[i].speed]
             some == Len(speeds) > 0
         IN  [avg_speed |-> IF some THEN Mean(speeds) ELSE 0,
              max_speed |-> IF some THEN MaxOf(speeds) ELSE 0,
              std_speed |-> IF some THEN Std(speeds) ELSE 0,
              avg_acceleration |-> average_acceleration(logs),
              stop_frequency |-> StopScan(logs, 1, 0, << >>).stop_count,
              distance_km |-> IF distance_row \in {NoRow, NullDistance}
                              THEN 0 ELSE distance_row]

\* a trip whose features are about to be extracted
GivenLogs(logs, distance_row) ==
    [op |-> "given_logs", logs |-> logs, distance_row |-> distance_row]

\* a caller awaits extract_features(db, trip_id)
ExtractFeatures ==
    /\ last.op = "given_logs"
    /\ last' = [op |-> "extract_features", logs |-> last.logs,
                distance_row |-> last.distance_row,
                result |-> extract_features(last.logs, last.distance_row),
                visited |-> StopScan(last.logs, 1, 0, << >>).visited]
    /\ UNCHANGED <<store, model, detector, boot, fresh, fits, ret, trips, training, requests>>

\* every trip of at most MaxLogs rows and the trips sampled at 1 Hz, with
\* every answer of the distance query for the trips of at most two rows and
\* 1.2 km for the others
InitTrajectory ==
    /\ Started({EmptyStore})
    /\ \/ \E n \in 0..MaxLogs :
            \E sp \in [1..n -> LogSpeeds], g \in [1..n -> Gaps], d \in DistanceRows :
                /\ IF n = 0 THEN TRUE ELSE g[1] = 0
                /\ IF n <= 2 THEN TRUE ELSE d = 120
                /\ last = GivenLogs(TripLogs(sp, g), d)
       \/ \E logs \in UniformLogs : last = GivenLogs(logs, 120)

NextTrajectory ==
    \/ ExtractFeatures

SpecTrajectory == InitTrajectory /\ [][NextTrajectory]_vars

-----------------------------------------------------------------------------
(* Properties: serialisation (checked under SpecMotion) *)

\* the orderings of the same entries
Reorderings(items) ==
    { [i \in DOMAIN items |-> items[f[i]]] :
        f \in { g \in [DOMAIN items -> DOMAIN items] :
                  \A i \in DOMAIN items, j \in DOMAIN items : i # j => g[i] # g[j] } }

\* the value written for key k in items, 0 when k is not written
Written(items, k) ==
    IF \E i \in DOMAIN items : items[i][1] = k
    THEN items[CHOOSE i \in DOMAIN items : items[i][1] = k][2]
    ELSE 0

\* the entries whose key is in schema
Only(items, schema) ==
    SelectSeq(items, LAMBDA e : \E i \in DOMAIN schema : schema[i] = e[1])

\* C11: the model input depends only on the key-value content of the
\* mapping: _prepare_feature_vector gives 21 values in the motion-schema
\* order accel_mean ... motion_consistency, which is the column order of the
\* training matrix, with 0.0 for a missing key; predict_mode builds 6 values
\* in the FEATURES order; insertion order and extra keys change neither.
C11_FixedFeatureOrder ==
    last.op = "prepare_feature_vector" =>
        /\ Len(last.vector) = 21
        /\ feature_cols[1] = "accel_mean" /\ feature_cols[21] = "motion_consistency"
        /\ \A i \in 1..21 : last.vector[i] = Written(last.items, feature_cols[i])
        /\ Len(last.X) = 6
        /\ last.X = << Written(last.items, "avg_speed"), Written(last.items, "max_speed"),
                       Written(last.items, "std_speed"),
                       Written(last.items, "avg_acceleration"),
                       Written(last.items, "stop_frequency"),
                       Written(last.items, "distance_km") >>
        /\ \A p \in Reorderings(last.items) :
              /\ prepare_feature_vector(DictOf(p)) = last.vector
              /\ mode_input(DictOf(p)) = last.X
        /\ prepare_feature_vector(DictOf(Only(last.items, feature_cols))) = last.vector
        /\ mode_input(DictOf(Only(last.items, FEATURES))) = last.X

\* C11 witness: speed_std written before speed_mean and after an extra key;
\* the two still land in places 15 and 14
C11_Witness ==
    /\ last.op = "prepare_feature_vector"
    /\ Len(last.items) = 3
    /\ last.items[1] = << "extra", 11 >>
    /\ last.items[2] = << "speed_std", 22 >>
    /\ last.items[3] = << "speed_mean", 11 >>
    /\ last.vector[14] = 11 /\ last.vector[15] = 22

\* C12: extract_motion_features returns the empty mapping for every window
\* of fewer than 10 samples, an empty or null window included, and for every
\* window of 10 or more samples a mapping of exactly the 21 motion-schema
\* keys; never a partial mapping.
C12_MotionFeaturesAllOrNothing ==
    last.op = "extract_motion_features" =>
        LET short == last.sensor_data = NullWindow \/ Len(last.sensor_data) < 10
            keys == {feature_cols[i] : i \in 1..21}
        IN  /\ short => last.result = EmptyDict
            /\ ~short => DOMAIN last.result = keys
            /\ DOMAIN last.result \in {{}, keys}
            /\ Cardinality(keys) = 21

\* C12 witness: a window of exactly 10 samples gives all 21 keys, with
\* data_points 10
C12_Witness ==
    /\ last.op = "extract_motion_features"
    /\ last.sensor_data # NullWindow
    /\ Len(last.sensor_data) = 10
    /\ Cardinality(DOMAIN last.result) = 21
    /\ last.result["data_points"] = 1000

-----------------------------------------------------------------------------
(* Properties: trajectory features (checked under SpecTrajectory) *)

\* row i has a speed and it is below 2 km/h
LowAt(logs, i) == logs[i].speed # -1 /\ logs[i].speed < 200

\* the maximal runs of consecutive low rows, as << first, last >>
MaximalRuns(logs) ==
    { r \in (1..Len(logs)) \X (1..Len(logs)) :
        /\ r[1] <= r[2]
        /\ \A k \in r[1]..r[2] : LowAt(logs, k)
        /\ r[1] = 1 \/ ~LowAt(logs, r[1] - 1)
        /\ r[2] = Len(logs) \/ ~LowAt(logs, r[2] + 1) }

\* the runs followed by a row that comes 30 s or more after their first row
CountedRuns(logs) ==
    { r \in MaximalRuns(logs) :
        /\ r[2] < Len(logs)
        /\ logs[r[2] + 1].timestamp - logs[r[1]].timestamp >= 30 }

\* C13: extract_features returns the empty mapping for a trip without
\* samples and otherwise a mapping with exactly the six keys; when no sample
\* carries a speed, avg_speed, max_speed and std_speed are 0.0, and a missing
\* distance result becomes 0.0.
C13_TrajectoryFeaturesTotal ==
    last.op = "extract_features" =>
        /\ last.logs = << >> => last.result = EmptyDict
        /\ last.logs # << >> =>
              /\ DOMAIN last.result =
                    {"avg_speed", "max_speed", "std_speed", "avg_acceleration",
                     "stop_frequency", "distance_km"}
              /\ (\A i \in DOMAIN last.logs : last.logs[i].speed = -1) =>
                    /\ last.result["avg_speed"] = 0
                    /\ last.result["max_speed"] = 0
                    /\ last.result["std_speed"] = 0
              /\ last.distance_row \in {NoRow, NullDistance} =>
                    last.result["distance_km"] = 0

\* C13 witness: rows without any speed and a distance query answering NULL
C13_Witness ==
    /\ last.op = "extract_features"
    /\ Len(last.logs) = 2
    /\ \A i \in DOMAIN last.logs : last.logs[i].speed = -1
    /\ last.distance_row = NullDistance
    /\ last.result["avg_speed"] = 0
    /\ last.result["distance_km"] = 0

\* the trip of the stop example: n rows at 1 Hz and 1.0 km/h, then one row
\* at 20 km/h
StopExample(n) ==
    [i \in 1..(n + 1) |->
        [speed |-> IF i <= n THEN 100 ELSE 2000, timestamp |-> i - 1]]

C15_SingleDipsNeverCount ==
    (last.op = "extract_features" /\ last.logs # << >>) =>
        LET logs == last.logs
            dips == { r \in MaximalRuns(logs) :
                        /\ r[1] = r[2]
                        /\ r[1] > 1 /\ logs[r[1] - 1].speed >= 200
                        /\ r[2] < Len(logs) /\ logs[r[2] + 1].speed >= 200 }
        IN  /\ MaximalRuns(logs) = dips => last.result["stop_frequency"] = 0
            /\ last.result["stop_frequency"] =
                  Cardinality({ r \in MaximalRuns(logs) \ dips :
                                  /\ r[2] < Len(logs)
                                  /\ logs[r[2] + 1].timestamp - logs[r[1]].timestamp > 30 })

\* C16: avg_acceleration is the mean of (speed[i] - speed[i-1]) / dt over
\* exactly the adjacent pairs whose two speeds are non-null and whose dt is
\* strictly positive; the other pairs are skipped, and the result is 0.0
\* with no usable pair or fewer than 2 samples.
C16_AverageAcceleration ==
    (last.op = "extract_features" /\ last.logs # << >>) =>
        LET logs == last.logs
            usable == { i \in 2..Len(logs) :
                          /\ logs[i].speed # -1 /\ logs[i - 1].speed # -1
                          /\ logs[i].timestamp > logs[i - 1].timestamp }
            acc == [i \in usable |->
                       (logs[i].speed - logs[i - 1].speed)
                       \div (logs[i].timestamp - logs[i - 1].timestamp)]
        IN  /\ usable = {} => last.result["avg_acceleration"] = 0
            /\ usable # {} =>
                  last.result["avg_acceleration"] =
                      SumOver(acc, usable) \div Cardinality(usable)

\* C16 witness: a pair with equal timestamps and a pair with a null speed
\* are skipped, and the one usable pair gives -19.0 / 10 s
C16_Witness ==
    /\ last.op = "extract_features"
    /\ last.logs = << [speed |-> 100, timestamp |-> 0],
                      [speed |-> 2000, timestamp |-> 0],
                      [speed |-> 100, timestamp |-> 10],
                      [speed |-> -1, timestamp |-> 10] >>
    /\ last.result["avg_acceleration"] = -190

-----------------------------------------------------------------------------
(* Retraining: train_models, the retrain endpoint and the status endpoint *)

\* what train_models can touch: the four fields of the service and its
\* three files
Service ==
    [scaler |-> scaler, start_model |-> start_model, end_model |-> end_model,
     is_trained |-> is_trained,
     files |-> [name \in DetectorArtifacts |-> store[name]]]

TrainOps == {"train_models", "retrain_models", "get_ml_model_status"}

\* a train_models call of this process has returned True
HasTrained == last.op \in TrainOps /\ last.trained

\* a caller invokes trip_detection_ml.train_models(training_data) and keeps
\* what it returned, with the service before and after the call
CallTrainModels(n, fail, truncated) ==
    /\ train_models(n, fail, truncated)
    /\ last' = [op |-> "train_models", n |-> n, raised |-> fail # "none",
                ret |-> ret', before |-> Service, after |-> Service',
                trained |-> HasTrained \/ ret' = "True"]

\* POST /retrain_models with n rows in the training table
RetrainModels(n, fail, truncated) ==
    IF n < MIN_TRAINING
    THEN /\ fail = "none" /\ ~truncated
         /\ last' = [op |-> "retrain_models", n |-> n, status |-> 400,
                     called |-> FALSE, before |-> Service, after |-> Service,
                     trained |-> HasTrained]
         /\ UNCHANGED <<store, model, detector, boot, fresh, fits, ret, trips,
                        training, requests>>
    ELSE /\ train_models(n, fail, truncated)
         /\ last' = [op |-> "retrain_models", n |-> n,
                     status |-> IF ret' = "True" THEN 200 ELSE 500,
                     called |-> TRUE, before |-> Service, after |-> Service',
                     trained |-> HasTrained \/ ret' = "True"]

\* GET /status
GetMLModelStatus ==
    /\ last' = [op |-> "get_ml_model_status",
                body |-> [is_trained |-> is_trained,
                          start_model_available |-> start_model # None,
                          end_model_available |-> end_model # None,
                          scaler_available |-> scaler # None],
                trained |-> HasTrained]
    /\ UNCHANGED <<store, model, detector, boot, fresh, fits, ret, trips, training, requests>>

\* The Boundary Detector of one process being retrained and asked for its
\* status, over every store the detector can find at start-up.
InitTrain == InitOn(DetectorStores)

NextTrain ==
    \/ \E n \in CorpusSizes, fail \in FailurePoints, truncated \in BOOLEAN :
          CallTrainModels(n, fail, truncated)
    \/ \E n \in CorpusSizes, fail \in FailurePoints, truncated \in BOOLEAN :
          RetrainModels(n, fail, truncated)
    \/ GetMLModelStatus
    \/ Restart

SpecTrain == InitTrain /\ [][NextTrain]_vars

-----------------------------------------------------------------------------
(* Claims about retraining *)

\* C17: a train_models call given fewer than 100 examples (none included)
\* returns False and leaves the scaler, both models, is_trained and the three
\* artifact files as they were; POST /retrain_models with fewer than 100
\* rows answers 400 without calling train_models.
C17_SmallCorpusRejected ==
    /\ (last.op = "train_models" /\ last.n < 100)
         => last.ret = "False" /\ last.after = last.before
    /\ (last.op = "retrain_models" /\ last.n < 100)
         => last.status = 400 /\ ~last.called /\ last.after = last.before

C17_Witness ==
    /\ last.op = "train_models"
    /\ last.n = 99
    /\ last.ret = "False"
    /\ last.before.is_trained
    /\ last.after = last.before

\* what GET /status answers when the detector is trained and whole
AllAvailable ==
    [is_trained |-> TRUE, start_model_available |-> TRUE,
     end_model_available |-> TRUE, scaler_available |-> TRUE]

\* C18 as stated: every train_models call given 100 or more examples
\* returns True, and every status read after it reports is_trained = true
\* with the start model, the end model and the scaler available.
C18_TrainingAlwaysSucceeds ==
    /\ (last.op = "train_models" /\ last.n >= 100) => last.ret = "True"
    /\ (last.op = "get_ml_model_status" /\ last.trained)
         => last.body = AllAvailable

\* C18, amended: a train_models call given 100 or more examples returns True
\* when none of its statements raises and False when one does; once a call
\* has returned True, is_trained is true and every status read of that
\* process reports is_trained = true with the start model, the end model and
\* the scaler available, also after later calls that failed.
C18_TrainingSucceedsUnlessRaised ==
    /\ (last.op = "train_models" /\ last.n >= 100)
         => /\ last.ret = (IF last.raised THEN "False" ELSE "True")
            /\ ~last.raised => last.after.is_trained
    /\ (last.op \in TrainOps /\ last.trained) => is_trained
    /\ (last.op = "get_ml_model_status" /\ last.trained)
         => last.body = AllAvailable

\* a process that started with no detector artifact reports itself trained
\* after a retraining that went through
C18_Witness ==
    /\ last.op = "get_ml_model_status"
    /\ last.trained
    /\ DetectorArtifacts \subseteq boot
    /\ last.body = AllAvailable

\* C19: a train_models call that got past the size check and returned False
\* (a statement raised while assembling the matrix, fitting the scaler,
\* fitting a classifier or saving an artifact) leaves the scaler, both
\* models, is_trained and the three artifact files exactly as they were.
C19_FailedTrainingChangesNothing ==
    (last.op = "train_models" /\ last.n >= 100 /\ last.ret = "False")
        => last.after = last.before

-----------------------------------------------------------------------------
(* train_models statement by statement, with predictions of other threads  *)
(* in between: the service is a module global and neither train_models nor *)
(* the predict methods take a lock.  (The handlers of routers/ml.py are    *)
(* coroutines of one event loop and train_models never awaits; a caller    *)
(* that trains in a worker thread gets the interleavings below.)           *)

\* the three objects a prediction of the Boundary Detector works with
Objects(o) == <<o.scaler, o.start_model, o.end_model>>

\* the set a training that numbers its fits v is building
NewObjects(v) == <<Fitted(v), Fitted(v), Fitted(v)>>

At(pc) == training.pc = pc

Goto(pc) == training' = [training EXCEPT !.pc = pc]

\* lines 259-278: the size check passes and the matrix is assembled
TrainBegin ==
    /\ At("idle")
    /\ fits < MaxTrain
    /\ training' = [pc |-> "assembled", v |-> fits + 1, old |-> Objects(Service)]
    /\ fits' = fits + 1
    /\ fresh' = FALSE
    /\ UNCHANGED <<store, model, detector, boot, ret, trips, last, requests>>

\* line 281: self.scaler.fit_transform(X) refits the scaler object in place
FitScaler ==
    /\ At("assembled")
    /\ scaler' = Fitted(training.v)
    /\ Goto("scaled")
    /\ UNCHANGED <<store, model, start_model, end_model, is_trained, boot, fresh,
                   fits, ret, trips, last, requests>>

\* line 292: self.start_model = RandomForestClassifier(...)
AssignStartModel ==
    /\ At("scaled")
    /\ start_model' = Unfitted
    /\ Goto("start_assigned")
    /\ UNCHANGED <<store, model, end_model, scaler, is_trained, boot, fresh,
                   fits, ret, trips, last, requests>>

\* line 298: self.start_model.fit(...)
FitStartModel ==
    /\ At("start_assigned")
    /\ start_model' = Fitted(training.v)
    /\ Goto("start_fitted")
    /\ UNCHANGED <<store, model, end_model, scaler, is_trained, boot, fresh,
                   fits, ret, trips, last, requests>>

\* line 301: self.end_model = RandomForestClassifier(...)
AssignEndModel ==
    /\ At("start_fitted")
    /\ end_model' = Unfitted
    /\ Goto("end_assigned")
    /\ UNCHANGED <<store, model, start_model, scaler, is_trained, boot, fresh,
                   fits, ret, trips, last, requests>>

\* line 307: self.end_model.fit(...)
FitEndModel ==
    /\ At("end_assigned")
    /\ end_model' = Fitted(training.v)
    /\ Goto("end_fitted")
    /\ UNCHANGED <<store, model, start_model, scaler, is_trained, boot, fresh,
                   fits, ret, trips, last, requests>>

\* lines 318-320: the three joblib.dump calls, one file after the other
DumpArtifact ==
    \E step \in {<<"end_fitted", "trip_start_model", "start_saved">>,
                 <<"start_saved", "trip_end_model", "end_saved">>,
                 <<"end_saved", "trip_detection_scaler", "scaler_saved">>} :
        /\ At(step[1])
        /\ store' = [store EXCEPT ![step[2]] = Fitted(training.v)]
        /\ Goto(step[3])
        /\ UNCHANGED <<model, detector, boot, fresh, fits, ret, trips, last, requests>>

\* lines 322-325: is_trained is set and the call returns True
TrainReturn ==
    /\ At("scaler_saved")
    /\ is_trained' = IsTrainedAfter(is_trained, TRUE)
    /\ ret' = "True"
    /\ training' = Idle
    /\ UNCHANGED <<store, model, start_model, end_model, scaler, boot, fresh,
                   fits, trips, last, requests>>

\* lines 327-329: the statement the call is at raises and the call returns
\* False
TrainRaise ==
    /\ ~At("idle")
    /\ ret' = "False"
    /\ training' = Idle
    /\ UNCHANGED <<store, model, detector, boot, fresh, fits, trips, last, requests>>

\* One process: a thread inside train_models, other threads predicting.
InitConcurrent == InitOn(DetectorStores)

NextConcurrent ==
    \/ TrainBegin
    \/ FitScaler
    \/ AssignStartModel
    \/ FitStartModel
    \/ AssignEndModel
    \/ FitEndModel
    \/ DumpArtifact
    \/ TrainReturn
    \/ TrainRaise
    \/ \E f \in SampleFeatureMaps : PredictTripStart(f)
    \/ \E f \in SampleFeatureMaps : PredictTripEnd(f)

SpecConcurrent == InitConcurrent /\ [][NextConcurrent]_vars

\* C20: a prediction of a trained detector made while a train_models call is
\* running works with one whole artifact set, the scaler and two models the
\* call found or the scaler and two models it is building; it never meets
\* the refitted scaler next to an old model, nor a model that is assigned
\* and not yet fitted.
C20_PredictionSeesOneArtifactSet ==
    (/\ last.op \in {"predict_trip_start", "predict_trip_end"}
     /\ last.training.pc # "idle"
     /\ last.is_trained)
        => Objects(last.art) \in {last.training.old, NewObjects(last.training.v)}

-----------------------------------------------------------------------------
(* Saving artifacts while another process reads them.  The writers are the *)
(* joblib.dump calls of train_model.py, train_trip_detection.py and        *)
(* train_models; the readers are a service process starting up and         *)
(* predict_mode, which loads label_encoder.pkl on every call.              *)

\* the files each training pipeline dumps, in the order of its dump calls
Pipelines ==
    {<<"mode_model", "label_encoder">>,
     <<"trip_start_model", "trip_end_model", "trip_detection_scaler">>}

\* app/ml_models after every pipeline has run once
WholeStore == [name \in ArtifactNames |-> Fitted(0)]

\* a pipeline has fitted its objects and reaches its first joblib.dump
SaveBegin(files) ==
    /\ At("idle")
    /\ fits < MaxTrain
    /\ training' = [pc |-> "saving", todo |-> files, open |-> FALSE,
                    v |-> fits + 1]
    /\ fits' = fits + 1
    /\ UNCHANGED <<store, model, detector, boot, fresh, ret, trips, last, requests>>

\* joblib.dump(obj, path) opens path for writing: the file at the final path
\* is truncated and holds part of the pickle until the dump has finished
DumpOpen ==
    /\ At("saving")
    /\ training.todo # << >>
    /\ ~training.open
    /\ store' = [store EXCEPT ![Head(training.todo)] = Corrupt]
    /\ training' = [training EXCEPT !.open = TRUE]
    /\ UNCHANGED <<model, detector, boot, fresh, fits, ret, trips, last, requests>>

\* the dump writes the rest of the pickle and closes the file
DumpClose ==
    /\ At("saving")
    /\ training.open
    /\ store' = [store EXCEPT ![Head(training.todo)] = Fitted(training.v)]
    /\ training' = [training EXCEPT !.todo = Tail(@), !.open = FALSE]
    /\ UNCHANGED <<model, detector, boot, fresh, fits, ret, trips, last, requests>>

\* the last dump has returned
SaveEnd ==
    /\ At("saving")
    /\ training.todo = << >>
    /\ training' = Idle
    /\ UNCHANGED <<store, model, detector, boot, fresh, fits, ret, trips, last, requests>>

\* A store holding a whole artifact set, a pipeline saving a new one, and a
\* service that starts and predicts modes meanwhile.
InitPersist == InitOn({WholeStore})

NextPersist ==
    \/ \E files \in Pipelines : SaveBegin(files)
    \/ DumpOpen
    \/ DumpClose
    \/ SaveEnd
    \/ Restart
    \/ \E f \in SampleTrajectoryMaps : PredictMode(f)

SpecPersist == InitPersist /\ [][NextPersist]_vars

\* C21: every artifact is saved write-then-publish: a service that starts
\* while a pipeline is saving loads the whole old or the whole new object of
\* each of its four files, and a predict_mode call made meanwhile loads the
\* whole old or the whole new label encoder, never part of one.
C21_ReadersSeeWholeArtifacts ==
    /\ \A obj \in {model, start_model, end_model, scaler} : obj.kind = "fitted"
    /\ (last.op = "predict_mode" /\ last.art.model # None)
         => last.art.label_encoder.kind = "fitted"

-----------------------------------------------------------------------------
(* Claims about the status endpoint and the fields of the service          *)
(* (checked under SpecTrain)                                               *)

\* the object was loaded from a file or fitted by train_models: it is not
\* the None or the unfitted object the constructor or an assignment put there
Present(obj) == obj.kind \notin {"none", "unfitted"}

\* C22: GET /status reports is_trained as the service holds it, and reports
\* the start model, the end model and the scaler available exactly when that
\* object was loaded from the store or fitted by training; with no scaler
\* loaded or fitted, scaler_available is false.
C22_StatusReportsPresence ==
    last.op = "get_ml_model_status"
        => /\ last.body.is_trained = is_trained
           /\ last.body.start_model_available = Present(start_model)
           /\ last.body.end_model_available = Present(end_model)
           /\ last.body.scaler_available = Present(scaler)

-----------------------------------------------------------------------------
(* The distance query of extract_features.  Positions are on a grid of     *)
(* kilometres whose points are 3, 4 or 5 km apart, so that every segment   *)
(* has a whole length; lengths are in metres, distance_km in hundredths.   *)

MaxPoints == 3

Positions == {<<0, 0>>, <<3, 0>>, <<3, 4>>, <<0, 4>>}

\* the rows of a trip in gps_logs as they were inserted, with distinct
\* timestamps in any order
GpsRows(n) ==
    { r \in [1..n -> [timestamp : 1..n, location : Positions]] :
        \A i \in 1..n, j \in 1..n : i # j => r[i].timestamp # r[j].timestamp }

\* ORDER BY timestamp
order_by_timestamp(rows) ==
    [k \in 1..Len(rows) |->
        rows[CHOOSE i \in 1..Len(rows) :
                Cardinality({j \in 1..Len(rows) :
                               rows[j].timestamp <= rows[i].timestamp}) = k]]

\* the length in metres of the segment from p to q
SegmentLength(p, q) ==
    LET dx == p[1] - q[1]
        dy == p[2] - q[2]
        km == CHOOSE d \in 0..10 : d * d <= dx * dx + dy * dy
                                   /\ dx * dx + dy * dy < (d + 1) * (d + 1)
    IN  1000 * km

\* ST_MakeLine(geom): the line through the points in the order they come
ST_MakeLine(points) == points

\* ST_Length(line::geography): the sum of the lengths of its segments
RECURSIVE ST_Length(_)
ST_Length(line) ==
    IF Len(line) < 2 THEN 0
    ELSE SegmentLength(line[1], line[2]) + ST_Length(Tail(line))

\* the distance measured from the first position to the last
distance_query_EndToEnd(rows) ==
    IF rows = << >> THEN NullDistance
    ELSE LET ordered_points == order_by_timestamp(rows)
             geom == [i \in 1..Len(rows) |-> ordered_points[i].location]
         IN  (SegmentLength(geom[1], geom[Len(geom)]) * 100) \div 1000

\* the distance query: distance_km of the one row it returns, NULL for a
\* trip without rows (the aggregate of nothing)
distance_query(rows) ==
    IF rows = << >> THEN NullDistance
    ELSE LET ordered_points == order_by_timestamp(rows)
             geom == [i \in 1..Len(rows) |-> ordered_points[i].location]
         IN  (ST_Length(ST_MakeLine(geom)) * 100) \div 1000

\* the rows as the first query of extract_features returns them
logs_query(rows) ==
    LET ordered == order_by_timestamp(rows)
    IN  [i \in 1..Len(rows) |->
            [speed |-> 1000, timestamp |-> 10 * ordered[i].timestamp]]

GivenRows(rows) == [op |-> "given_rows", rows |-> rows]

\* a caller awaits extract_features(db, trip_id) for a trip with these rows
ExtractDistance ==
    /\ last.op = "given_rows"
    /\ last' = [op |-> "extract_distance", rows |-> last.rows,
                result |-> extract_features(logs_query(last.rows),
                                            distance_query(last.rows))]
    /\ UNCHANGED <<store, model, detector, boot, fresh, fits, ret, trips, training, requests>>

InitDistance ==
    /\ Started({EmptyStore})
    /\ \E n \in 0..MaxPoints : \E rows \in GpsRows(n) : last = GivenRows(rows)

NextDistance ==
    \/ ExtractDistance

SpecDistance == InitDistance /\ [][NextDistance]_vars

\* the position of the row with the k-th smallest timestamp
PositionAt(rows, k) ==
    (CHOOSE r \in {rows[i] : i \in DOMAIN rows} :
        Cardinality({i \in DOMAIN rows : rows[i].timestamp < r.timestamp}) = k - 1).location

\* the polyline through the positions in timestamp order, in hundredths of km
PolylineLength(rows) ==
    LET leg == [k \in 1..(Len(rows) - 1) |->
                  SegmentLength(PositionAt(rows, k), PositionAt(rows, k + 1)) \div 10]
    IN  SumOver(leg, DOMAIN leg)

\* C23: distance_km is the length of the polyline through all positions of
\* the trip in timestamp order, the sum of its segments; for the right-angle
\* path (0,0), (3,0), (3,4) it is the 7 km of the two legs, not the 5 km from
\* the first point to the last.
C23_DistanceIsPolylineLength ==
    (last.op = "extract_distance" /\ last.rows # << >>)
        => /\ last.result.distance_km = PolylineLength(last.rows)
           /\ (/\ Len(last.rows) = 3
               /\ PositionAt(last.rows, 1) = <<0, 0>>
               /\ PositionAt(last.rows, 2) = <<3, 0>>
               /\ PositionAt(last.rows, 3) = <<3, 4>>)
                 => last.result.distance_km = 700

\* the right-angle path, inserted out of timestamp order
C23_Witness ==
    /\ last.op = "extract_distance"
    /\ Len(last.rows) = 3
    /\ last.rows[1] = [timestamp |-> 3, location |-> <<3, 4>>]
    /\ last.rows[2] = [timestamp |-> 1, location |-> <<0, 0>>]
    /\ last.rows[3] = [timestamp |-> 2, location |-> <<3, 0>>]
    /\ last.result.distance_km = 700

-----------------------------------------------------------------------------
(* The two pipelines that produce the Boundary Detector's artifacts, on a  *)
(* corpus of one feature: what each hands to StandardScaler.fit and to the *)
(* classifiers' fit, and what the detector hands to predict afterwards.    *)
(* Values are in hundredths.                                               *)

CorpusLen == 3

CorpusValues == {0, 200, 1000}

\* the labelled examples a pipeline trains on
Corpora ==
    [1..CorpusLen -> [x : CorpusValues, trip_start_label : BOOLEAN,
                      trip_end_label : BOOLEAN]]

Column(corpus, field) == [i \in DOMAIN corpus |-> corpus[i][field]]

\* train_test_split(..., test_size=0.2, random_state=42): the rows kept for
\* training, the same rows for every matrix of the same length
TrainRows(n) == 1..(n - 1)

TrainSplit(column) == [i \in TrainRows(Len(column)) |-> column[i]]

\* StandardScaler().fit(X): the mean and the standard deviation of the
\* column, a deviation of zero being replaced by one
scaler_fit(X) ==
    [mean |-> Mean(X), scale |-> IF Std(X) = 0 THEN 100 ELSE Std(X)]

\* scaler.transform on one value
scaler_transform(sc, x) == ((x - sc.mean) * 100) \div sc.scale

Distance(a, b) == IF a < b THEN b - a ELSE a - b

\* classifier.fit(X, y): what the classifier learns is the place of each
\* class in the matrix it is given; it keeps that matrix as `seen`
classifier_fit(X, y) ==
    LET pos == {i \in DOMAIN X : y[i]}
        neg == DOMAIN X \ pos
    IN  [seen |-> X, classes |-> {y[i] : i \in DOMAIN X},
         pos |-> IF pos = {} THEN 0 ELSE SumOver(X, pos) \div Cardinality(pos),
         neg |-> IF neg = {} THEN 0 ELSE SumOver(X, neg) \div Cardinality(neg)]

\* classifier.predict on one value
classifier_predict(m, z) ==
    IF m.classes = {TRUE} THEN TRUE
    ELSE IF m.classes = {FALSE} THEN FALSE
    ELSE Distance(z, m.pos) < Distance(z, m.neg)

\* the artifact set of a train_models call that returns True
train_models_fit(corpus) ==
    LET X == Column(corpus, "x")
        sc == scaler_fit(X)
        X_scaled == [i \in DOMAIN X |-> scaler_transform(sc, X[i])]
        X_train == TrainSplit(X_scaled)
    IN  [scaler |-> sc,
         start_model |-> classifier_fit(X_train, TrainSplit(Column(corpus, "trip_start_label"))),
         end_model |-> classifier_fit(X_train, TrainSplit(Column(corpus, "trip_end_label")))]

\* the artifact set train_trip_detection.py saves
train_trip_detection_models(corpus) ==
    LET X == Column(corpus, "x")
        X_train == TrainSplit(X)
    IN  [scaler |-> scaler_fit(X),
         start_model |-> classifier_fit(X_train, TrainSplit(Column(corpus, "trip_start_label"))),
         end_model |-> classifier_fit(X_train, TrainSplit(Column(corpus, "trip_end_label")))]

\* what predict_trip_start and predict_trip_end hand to the classifier for
\* the value x of the feature
inference_input(set, x) == scaler_transform(set.scaler, x)

GivenCorpus(corpus) == [op |-> "given_corpus", corpus |-> corpus]

\* trip_detection_ml.train_models(corpus) runs and returns True
FitByTrainModels ==
    /\ last.op = "given_corpus"
    /\ last' = [op |-> "artifacts", by |-> "train_models",
                corpus |-> last.corpus, set |-> train_models_fit(last.corpus)]
    /\ UNCHANGED <<store, model, detector, boot, fresh, fits, ret, trips, training, requests>>

\* python train_trip_detection.py runs
FitByScript ==
    /\ last.op = "given_corpus"
    /\ last' = [op |-> "artifacts", by |-> "train_trip_detection",
                corpus |-> last.corpus,
                set |-> train_trip_detection_models(last.corpus)]
    /\ UNCHANGED <<store, model, detector, boot, fresh, fits, ret, trips, training, requests>>

InitPipelines ==
    /\ Started({EmptyStore})
    /\ \E corpus \in Corpora : last = GivenCorpus(corpus)

NextPipelines ==
    \/ FitByTrainModels
    \/ FitByScript

SpecPipelines == InitPipelines /\ [][NextPipelines]_vars

\* the matrix a classifier of the set would have been given, had it been
\* fitted under the transformation inference applies
UnderInference(set, corpus) ==
    TrainSplit([i \in DOMAIN corpus |-> inference_input(set, corpus[i].x)])

\* C24: in every artifact set a pipeline produces, train_models or the
\* train_trip_detection script, both classifiers were fitted on the features
\* as the saved scaler transforms them, which is how predict_trip_start and
\* predict_trip_end transform the features they hand to the classifiers.
C24_ModelsFittedUnderSavedScaler ==
    last.op = "artifacts"
        => /\ last.set.start_model.seen = UnderInference(last.set, last.corpus)
           /\ last.set.end_model.seen = UnderInference(last.set, last.corpus)

-----------------------------------------------------------------------------
(* The is_trained flag of an instance (checked under SpecTrain)            *)

\* C25: in every state of a TripDetectionML instance, whatever files it was
\* constructed on and whatever train_models calls succeeded or failed since,
\* is_trained implies that start_model and end_model are both objects (not
\* None), and no call on the instance takes is_trained from true to false
\* (a step that leaves last.op = "none" is the start of a new instance).
C25_IsTrainedInvariant ==
    /\ [](is_trained => start_model # None /\ end_model # None)
    /\ [][(is_trained /\ last'.op # "none") => is_trained']_vars

\* a trained instance after a train_models call that failed
C25_Witness ==
    /\ last.op = "train_models"
    /\ last.n >= MIN_TRAINING
    /\ last.ret = "False"
    /\ last.before.is_trained
    /\ is_trained
    /\ start_model # None
    /\ end_model # None

-----------------------------------------------------------------------------
(* The run at the end of a trip (checked under SpecTrajectory)             *)

\* the maximal low-speed runs that a row follows
FollowedRuns(logs) == {r \in MaximalRuns(logs) : r[2] < Len(logs)}

\* C26: a low-speed run that reaches the last sample of the trip is never
\* counted, however long it lasts: stop_frequency is at most the number of
\* runs that a sample follows, it is 0 for a trip that is one low-speed run,
\* and it is at most the number of samples whose speed is null or >= 2.0.
C26_TrailingRunNeverCounted ==
    (last.op = "extract_features" /\ last.logs # << >>) =>
        LET logs == last.logs
            n == last.result.stop_frequency
        IN  /\ n <= Cardinality(FollowedRuns(logs))
            /\ (\A i \in DOMAIN logs : LowAt(logs, i)) => n = 0
            /\ n <= Cardinality({i \in DOMAIN logs : ~LowAt(logs, i)})

\* 35 rows at 1 Hz, all at 1.0 km/h
C26_Witness ==
    /\ last.op = "extract_features"
    /\ Len(last.logs) = 35
    /\ \A i \in DOMAIN last.logs : LowAt(last.logs, i)
    /\ last.logs[35].timestamp - last.logs[1].timestamp >= 30
    /\ last.result.stop_frequency = 0

-----------------------------------------------------------------------------
(* The motion ratios (checked under SpecMotion)                            *)

\* C27: for every window of at least 10 samples, high_motion_ratio and
\* low_motion_ratio each lie in [0, 1] and their sum is at most 1, no sample
\* being counted both as above 2.0 and as below 0.5, and data_points is the
\* length of the window.
C27_MotionRatiosBounded ==
    (/\ last.op = "extract_motion_features"
     /\ last.sensor_data # NullWindow
     /\ Len(last.sensor_data) >= 10)
        => LET r == last.result
           IN  /\ 0 <= r["high_motion_ratio"] /\ r["high_motion_ratio"] <= 100
               /\ 0 <= r["low_motion_ratio"] /\ r["low_motion_ratio"] <= 100
               /\ r["high_motion_ratio"] + r["low_motion_ratio"] <= 100
               /\ r["data_points"] = 100 * Len(last.sensor_data)

\* a window of 11 samples, some above 2.0 and the others below 0.5
C27_Witness ==
    /\ last.op = "extract_motion_features"
    /\ Len(last.sensor_data) = 11
    /\ \E i \in 1..11 : last.sensor_data[i].net > 200
    /\ \E i \in 1..11 : last.sensor_data[i].net < 50
    /\ last.result["high_motion_ratio"] > 0
    /\ last.result["low_motion_ratio"] > 0
    /\ last.result["high_motion_ratio"] + last.result["low_motion_ratio"] <= 100
    /\ last.result["data_points"] = 1100

-----------------------------------------------------------------------------
(* The handlers of routers/trips.py on trips that are missing, foreign or  *)
(* without usable data                                                     *)

\* the trip of the request exists and belongs to the caller
Owned(request) ==
    /\ request.trip_id \in DOMAIN trips
    /\ trips[request.trip_id].user_id = request.current_user

\* C28: predict_trip_mode answers 404 for a trip that is missing or belongs
\* to another user, 400 for a trip of the caller whose extracted features
\* are empty or all zero, and leaves the stored predicted_mode unchanged in
\* both cases; it writes predicted_mode only for a trip of the caller whose
\* features have a non-zero value, and then it writes the label it returns.
C28_PredictTripModeGuards ==
    [][last'.op = "predict_trip_mode" =>
         LET q == last'.request
             usable == q.features # EmptyDict /\ (\E k \in DOMAIN q.features : q.features[k] # 0)
         IN  /\ ~Owned(q) => last'.status = 404 /\ trips' = trips
             /\ (Owned(q) /\ ~usable) => last'.status = 400 /\ trips' = trips
             /\ (Owned(q) /\ usable)
                  => /\ last'.status = 200
                     /\ trips' = [trips EXCEPT ![q.trip_id].predicted_mode =
                                                  last'.body.predicted_mode]]_vars

\* the owner asks for a trip whose six features are all zero
C28_Witness ==
    /\ last.op = "predict_trip_mode"
    /\ Owned(last.request)
    /\ last.request.features # EmptyDict
    /\ \A k \in DOMAIN last.request.features : last.request.features[k] = 0
    /\ last.status = 400
    /\ trips[1].predicted_mode = "null"

-----------------------------------------------------------------------------
(* routers/trips.py: confirm_trip_mode and stop_trip.  Each request has    *)
(* its own database session; a stop_trip handler is suspended at            *)
(* `await db.commit()` with its changes in the session, and the handlers   *)
(* of other requests run meanwhile.                                        *)

MaxRequests == 2

Requests == 1..MaxRequests

Purposes == {"work", "leisure"}

ConfirmedModes == {"car", "walk"}

NotFound == [detail |-> "Trip not found or not owned by user"]

\* select(Trip).where(Trip.id == trip_id, Trip.user_id == current_user.id)
SelectTrip(current_user, trip_id) ==
    trip_id \in DOMAIN trips /\ trips[trip_id].user_id = current_user

\* what confirm_trip_mode answers: its only except clause catches the
\* HTTPException of the missing trip as well and raises a 500 with the
\* text of that exception
confirm_trip_mode_response(found) ==
    IF found
    THEN [status |-> 200, body |-> [message |-> "Trip mode confirmed"]]
    ELSE [status |-> 500,
          body |-> [detail |-> "Confirmation failed: 404: Trip not found or not owned by user"]]

\* POST /trip/confirm/{trip_id}; features is what extract_features returns
ConfirmTripMode(current_user, trip_id, confirmed_mode, features) ==
    LET found == SelectTrip(current_user, trip_id)
        response == confirm_trip_mode_response(found)
        row == [trip_id |-> trip_id, mode_label |-> confirmed_mode,
                avg_speed |-> Get(features, "avg_speed", 0),
                distance_km |-> Get(features, "distance_km", 0)]
    IN  /\ trips' = IF found
                    THEN [trips EXCEPT ![trip_id].confirmed_mode = confirmed_mode]
                    ELSE trips
        /\ ml_training_data' = IF found /\ features # EmptyDict
                               THEN Append(ml_training_data, row)
                               ELSE ml_training_data
        /\ Len(ml_training_data') <= MaxRequests
        /\ last' = [op |-> "confirm_trip_mode", status |-> response.status,
                    body |-> response.body,
                    request |-> [current_user |-> current_user, trip_id |-> trip_id]]
        /\ UNCHANGED <<store, model, detector, boot, fresh, fits, ret, training,
                       inflight, clock>>

\* POST /trip/stop/{trip_id}, request r, up to `await db.commit()`: the
\* select, the two checks, and the new values put on the session's object
StopTripSelect(r, current_user, trip_id, purpose) ==
    LET found == SelectTrip(current_user, trip_id)
        request == [current_user |-> current_user, trip_id |-> trip_id]
        now == clock + 1
    IN  /\ r \notin DOMAIN inflight
        /\ IF ~found
           THEN /\ last' = [op |-> "stop_trip", status |-> 404, body |-> NotFound,
                            request |-> request]
                /\ UNCHANGED <<inflight, clock>>
           ELSE IF trips[trip_id].end_time # Null
           THEN /\ last' = [op |-> "stop_trip", status |-> 400,
                            body |-> [detail |-> "Trip already stopped"],
                            request |-> request]
                /\ UNCHANGED <<inflight, clock>>
           ELSE /\ inflight' =
                     [q \in DOMAIN inflight \cup {r} |->
                        IF q = r
                        THEN [trip_id |-> trip_id, end_time |-> now,
                              purpose |-> purpose,
                              duration_min |-> now - trips[trip_id].start_time]
                        ELSE inflight[q]]
                /\ clock' = now
                /\ UNCHANGED last
        /\ UNCHANGED <<store, model, detector, boot, fresh, fits, ret, trips,
                       training, ml_training_data>>

\* the commit of request r: the UPDATE of the row with the session's values,
\* and the answer
StopTripCommit(r) ==
    /\ r \in DOMAIN inflight
    /\ LET session == inflight[r]
       IN  /\ trips' = [trips EXCEPT ![session.trip_id].end_time = session.end_time,
                                     ![session.trip_id].purpose = session.purpose,
                                     ![session.trip_id].duration_min = session.duration_min]
           /\ last' = [op |-> "stop_trip", status |-> 200,
                       body |-> [message |-> "Trip stopped", trip_id |-> session.trip_id],
                       request |-> [current_user |-> trips[session.trip_id].user_id,
                                    trip_id |-> session.trip_id]]
    /\ inflight' = [q \in DOMAIN inflight \ {r} |-> inflight[q]]
    /\ UNCHANGED <<store, model, detector, boot, fresh, fits, ret, training,
                   ml_training_data, clock>>

InitTrips == InitOn({EmptyStore})

NextTrips ==
    \/ \E u \in Users, t \in TripIds, mode \in ConfirmedModes,
          f \in {EmptyDict} \cup SampleTrajectoryMaps :
          ConfirmTripMode(u, t, mode, f)
    \/ \E r \in Requests, u \in Users, t \in TripIds, purpose \in Purposes :
          StopTripSelect(r, u, t, purpose)
    \/ \E r \in Requests : StopTripCommit(r)

SpecTrips == InitTrips /\ [][NextTrips]_vars

\* C29: confirm_trip_mode on a trip that does not exist or belongs to
\* another user answers 404 "Trip not found or not owned by user", changes
\* no trip and adds no training record.
C29_ConfirmMissingTripIs404 ==
    [][(last'.op = "confirm_trip_mode"
        /\ ~SelectTrip(last'.request.current_user, last'.request.trip_id))
          => /\ last'.status = 404
             /\ last'.body = NotFound
             /\ trips' = trips
             /\ ml_training_data' = ml_training_data]_vars

\* C30: a trip is stopped at most once: once end_time is set, end_time,
\* purpose and duration_min never change and no stop_trip call for the trip
\* succeeds, whether it runs after the first or concurrently with it; a call
\* that finds end_time set answers 400.
C30_TripStoppedOnce ==
    [][\A t \in DOMAIN trips :
         trips[t].end_time # Null
           => /\ trips'[t].end_time = trips[t].end_time
              /\ trips'[t].purpose = trips[t].purpose
              /\ trips'[t].duration_min = trips[t].duration_min
              /\ (last' # last /\ last'.op = "stop_trip" /\ last'.request.trip_id = t
                  /\ last'.request.current_user = trips[t].user_id)
                   => last'.status = 400]_vars

====
